---- MODULE Spec2Model ----
(***************************************************************************)
(* Model of the multi-server session pool (Servers), of one server         *)
(* session's resource lifecycle (LambdaFunctionUrlClient /                 *)
(* AutomatedOAuthClient) and of the client-credentials token flow          *)
(* (AutomatedOAuthClientProvider).                                         *)
(***************************************************************************)
EXTENDS Integers, Sequences, FiniteSets, TLC

\* ------------------------------------------------------------------ bounds
NumServers == 3      \* servers handed to Servers.__init__, in configured order
MaxRetries == 3      \* largest value of the `retries` parameter explored
NumTools == 2        \* distinct tool names advertised by the servers
NumToolUseIds == 2   \* distinct tool_use_id values passed to execute_tool
MaxTime == 4         \* last instant of the clock read by time.time()
MaxExpiresIn == 2    \* largest expires_in a token response carries
NumCandidates == 2   \* longest list of metadata discovery URLs
MaxHeaderLen == 4    \* longest WWW-Authenticate header, in lexical items
MaxAuthServers == 2  \* longest authorization_servers list of the metadata
MaxScopes == 2       \* longest scopes_supported list of the metadata
MaxAttempts == 2     \* invocations of InteractiveOAuthClient.initialize explored
MaxPolls == 2        \* polls of wait_for_callback that fit in its timeout
MaxCloses == 2       \* invocations of one session's __aexit__ explored
MaxHookRetries == 2  \* largest max_retries of FailOnToolError explored
MaxExpected == 2     \* longest expected_tools list of the evaluator
MaxTrajectory == 2   \* longest trajectory given to the evaluator
MaxRequestId == 2    \* largest JSON-RPC request id sent to a handler

ServerIds == 1..NumServers
ToolNames == 1..NumTools
ToolUseIds == 1..NumToolUseIds

\* ------------------------------------------------------------------- state
VARIABLES
    retries,              \* parameter `retries` of _initialize_server_with_retry
    pc,                   \* where the pool is: enter, up, failed, exiting, closed, exit_raised
    rpc,                  \* position inside the retry loop: try, close, sleep
    cur,                  \* index (in self.servers) of the server being brought up
    attempt,              \* local `attempt` of _initialize_server_with_retry
    initialized_servers,  \* local list of Servers.__aenter__
    servers,              \* Servers.servers
    transport_context,    \* per server: _transport_context (None, created, open)
    session_context,      \* per server: _session_context (None, created, open)
    initCalls,            \* per server: invocations of server.__aenter__
    initFails,            \* per server: invocations of server.__aenter__ that raised
    delays,               \* per server: completed asyncio.sleep(delay)
    exitCalls,            \* per server: invocations of server.__aexit__
    exitAfterInit,        \* per server: invocations of server.__aexit__ after a successful initialize
    closeLog,             \* servers on which Servers.__aexit__ invoked close, in order
    tdIdx,                \* position of Servers.__aexit__ in reversed(self.servers)
    error,                \* the exception that left Servers.__aenter__ / __aexit__, or NoError
    catalog,              \* per server: the tool names its list_tools returns
    lastCall,             \* outcome of the last Servers.execute_tool call
    now,                  \* time.time()
    storage_token,        \* InMemoryTokenStorage._token
    current_tokens,       \* context.current_tokens
    token_expiry_time,    \* context.token_expiry_time
    issued_at,            \* instant at which the stored token was obtained
    flow,                 \* outcome of the last perform_client_credentials_flow
    variant,              \* which protected-resource discovery is running
    dpc,                  \* where that discovery is: idle, fetching, done
    server_url,           \* its server_url argument
    response,             \* the answer to its probe request
    resource_metadata_url,\* the URL it fetches the resource metadata from
    metadata_response,    \* the answer to that fetch
    discovered,           \* what the discovery returned or raised
    ipc,                  \* where InteractiveOAuthClient.initialize is
    iattempt,             \* invocations of initialize so far
    client_id,            \* local client_id of initialize
    listeners,            \* per invocation: the CallbackServer it created
    callback_data,        \* callback_data of this invocation's CallbackServer
    waited,               \* completed time.sleep(0.1) of wait_for_callback
    handler,              \* how callback_handler ended in this invocation
    ierror,               \* the exception that left initialize, or "none"
    ivariant,             \* which InteractiveOAuthClient runs: examples, server_clients
    get_request,          \* the GET the listener thread handled last, or is handling
    browser,              \* what _open_browser did in this invocation
    tools,                \* what the last Servers.list_tools returned
    closes,               \* one session's __aexit__ invocations: what each released
    hook,                 \* FailOnToolError.check_result: the event and where the call is
    evaluation,           \* the last ToolCallEvaluator.evaluate call and its output
    created,              \* the last client construction: configuration, lookups, outcome
    http                  \* the last event given to a Lambda handler and its answer

poolVars == <<retries, pc, rpc, cur, attempt, initialized_servers, servers,
              transport_context, session_context, initCalls,
              initFails, delays, exitCalls, exitAfterInit, closeLog, tdIdx,
              error, catalog, lastCall>>
tokenVars == <<now, storage_token, current_tokens, token_expiry_time,
               issued_at, flow>>
resolverVars == <<variant, dpc, server_url, response, resource_metadata_url,
                  metadata_response, discovered>>
interactiveVars == <<ipc, iattempt, client_id, listeners, callback_data,
                     waited, handler, ierror, ivariant, get_request, browser>>
routerVars == <<tools>>
sessionVars == <<closes>>
auxVars == <<hook, evaluation, created, http>>
extVars == <<resolverVars, interactiveVars, routerVars, sessionVars, auxVars>>
vars == <<poolVars, tokenVars, extVars>>

NoError == [kind |-> "none"]
NoCall == [kind |-> "none"]
NoToken == [present |-> FALSE, access_token |-> "", token_type |-> "",
            expires_in |-> {}]
NoResponse == [status |-> 0, body |-> ""]
NoFlowError == [kind |-> "none", status |-> 0, body |-> ""]
NoRequest == [sent |-> FALSE, authorization |-> <<>>]
NoFlow ==
    [result |-> "none", caller |-> "none",
     stored_before |-> NoToken, current_before |-> NoToken, issued_before |-> 0,
     resps |-> <<>>, requested |-> <<>>, accepted |-> 0,
     gets |-> 0, posts |-> 0,
     response |-> NoResponse, error |-> NoFlowError, request |-> NoRequest]

NoUrl == [from |-> "none", text |-> <<>>]
NoProbe == [status_code |-> 0, www_auth_header |-> {}]
NoMetadata == [status_code |-> 0, valid |-> FALSE, authorization_servers |-> <<>>,
               scopes_supported |-> {}]
NoDiscovery == [kind |-> "none", error |-> "", scope |-> <<>>,
                authorization_server |-> ""]

Attempts == 1..MaxAttempts
NoListener == [server |-> "None", socket |-> "none", thread |-> "None"]
NoCallbackData == [authorization_code |-> "None", state |-> "None",
                   error |-> "None"]
NoHandler == [kind |-> "none", auth_code |-> "None", state |-> "None",
              error |-> "None"]

NoGet == [path |-> "", code |-> "None", state |-> "None", err |-> "None",
          branch |-> "none", status |-> 0, listener |-> 0, in_wait |-> FALSE]

\* Python's None where a server is expected.
NoServer == 0

\* Python's reversed(): the elements of s from the last to the first.
Reversed(s) == [k \in 1..Len(s) |-> s[Len(s) + 1 - k]]

\* ---------------------------------------------- one server session (client)
\* The places at which initialize() of a session can end: success, or an
\* exception raised before the transport is created (URL lookup, credentials,
\* OAuth flow), while entering the transport context, while entering the
\* protocol session context, or during the protocol handshake.
InitializeOutcomes ==
    {"ok", "fail_pre", "fail_transport", "fail_session", "fail_handshake"}

\* What a context manager's __aexit__ can do: return, or raise.
ExitOutcomes == {"ok", "raise"}

\* _transport_context after initialize(): assigned before it is entered.
TransportAfterInitialize(old, o) ==
    CASE o = "fail_pre" -> old
      [] o = "fail_transport" -> "created"
      [] OTHER -> "open"

\* _session_context after initialize(): assigned before it is entered.
SessionAfterInitialize(old, o) ==
    CASE o \in {"fail_pre", "fail_transport"} -> old
      [] o = "fail_session" -> "created"
      [] OTHER -> "open"

\* Whether the session-context branch of __aexit__ raises into the except.
SessionExitRaises(sctx, sOut) == sctx # "None" /\ sOut = "raise"

\* _session_context after __aexit__: cleared only when its exit returned.
SessionAfterExit(sctx, sOut) ==
    IF sctx # "None" /\ sOut = "ok" THEN "None" ELSE sctx

\* _transport_context after __aexit__: its branch runs only when the session
\* branch did not raise, and it is cleared only when its own exit returned.
TransportAfterExit(sctx, tctx, sOut, tOut) ==
    IF SessionExitRaises(sctx, sOut) THEN tctx
    ELSE IF tctx # "None" /\ tOut = "ok" THEN "None" ELSE tctx

\* The parent cleanup called last by __aexit__; what it raises leaves the
\* session's __aexit__.
ServerExitRaises(bOut) == bOut = "raise"

\* ------------------------------------------------------------ pool (Servers)
\* Loop condition of the retry loop.
LoopCond(a, r) == a < r

\* The retry decision with its bound off by one.
RetryCondOffByOne(a, r) == a + 1 < r

\* Whether another attempt follows the failed one (else the error is raised).
RetryCond(a, r) == a < r

\* The final exception with a message that does not carry the server's name.
InitErrorUnnamed(name) == [kind |-> "init", server |-> 0]

\* The exception raised when the retry budget is exhausted.
InitError(name) == [kind |-> "init", server |-> name]

\* The exception of a session's close that leaves Servers.__aexit__.
CloseError(name) == [kind |-> "close", server |-> name]

\* The order in which Servers.__aexit__ visits self.servers.
TeardownOrder(s) == Reversed(s)

Bump(f, s) == [f EXCEPT ![s] = @ + 1]

\* One invocation of server.__aenter__() by the retry loop, with its outcome.
ServerEnter(o) ==
    /\ pc = "enter" /\ rpc = "try"
    /\ LoopCond(attempt, retries)
    /\ LET s == servers[cur] IN
        /\ initCalls' = Bump(initCalls, s)
        /\ transport_context' = [transport_context EXCEPT
                                   ![s] = TransportAfterInitialize(@, o)]
        /\ session_context' = [session_context EXCEPT
                                 ![s] = SessionAfterInitialize(@, o)]
        /\ IF o = "ok"
           THEN /\ initialized_servers' = Append(initialized_servers, s)
                /\ attempt' = 0
                /\ rpc' = "try"
                /\ initFails' = initFails
                /\ IF cur = Len(servers)
                   THEN /\ pc' = "up"
                        /\ servers' = initialized_servers'
                        /\ cur' = cur
                   ELSE /\ pc' = "enter"
                        /\ servers' = servers
                        /\ cur' = cur + 1
           ELSE /\ initFails' = Bump(initFails, s)
                /\ attempt' = attempt + 1
                /\ rpc' = "close"
                /\ UNCHANGED <<initialized_servers, pc, servers, cur>>
    /\ UNCHANGED <<retries, delays, exitCalls, exitAfterInit, closeLog, tdIdx,
                   error, catalog, lastCall, tokenVars, extVars>>

\* The close of the failed attempt (its exception is logged and dropped),
\* followed by the decision to retry or to raise.
ServerRetryClose(sOut, tOut, bOut) ==
    /\ pc = "enter" /\ rpc = "close"
    /\ LET s == servers[cur] IN
        /\ exitCalls' = Bump(exitCalls, s)
        /\ session_context' = [session_context EXCEPT
                                 ![s] = SessionAfterExit(@, sOut)]
        /\ transport_context' = [transport_context EXCEPT
                                   ![s] = TransportAfterExit(session_context[s], @, sOut, tOut)]
        /\ IF RetryCond(attempt, retries)
           THEN /\ rpc' = "sleep"
                /\ UNCHANGED <<pc, error>>
           ELSE /\ pc' = "failed"
                /\ error' = InitError(s)
                /\ rpc' = rpc
    /\ UNCHANGED <<retries, cur, attempt, initialized_servers, servers,
                   initCalls, initFails, delays, exitAfterInit, closeLog,
                   tdIdx, catalog, lastCall, tokenVars, extVars>>

\* The delay between two attempts.
RetrySleep ==
    /\ pc = "enter" /\ rpc = "sleep"
    /\ delays' = Bump(delays, servers[cur])
    /\ rpc' = "try"
    /\ UNCHANGED <<retries, pc, cur, attempt, initialized_servers, servers,
                   transport_context, session_context, initCalls, initFails,
                   exitCalls, exitAfterInit, closeLog, tdIdx, error, catalog,
                   lastCall, tokenVars, extVars>>

\* One iteration of Servers.__aexit__: the close of the next server in
\* teardown order; an exception of that close leaves the loop.
ServersExit(sOut, tOut, bOut) ==
    /\ pc \in {"up", "exiting"}
    /\ tdIdx <= Len(servers)
    /\ TeardownOrder(servers)[tdIdx] # NoServer
    /\ LET s == TeardownOrder(servers)[tdIdx] IN
        /\ closeLog' = Append(closeLog, s)
        /\ exitCalls' = Bump(exitCalls, s)
        /\ exitAfterInit' = Bump(exitAfterInit, s)
        /\ session_context' = [session_context EXCEPT
                                 ![s] = SessionAfterExit(@, sOut)]
        /\ transport_context' = [transport_context EXCEPT
                                   ![s] = TransportAfterExit(session_context[s], @, sOut, tOut)]
        /\ IF ServerExitRaises(bOut)
           THEN /\ pc' = "exit_raised"
                /\ error' = CloseError(s)
                /\ tdIdx' = tdIdx
           ELSE /\ pc' = IF tdIdx = Len(servers) THEN "closed" ELSE "exiting"
                /\ tdIdx' = tdIdx + 1
                /\ error' = error
    /\ UNCHANGED <<retries, rpc, cur, attempt, initialized_servers, servers,
                   initCalls, initFails, delays, catalog, lastCall, tokenVars, extVars>>

ConfiguredServers == [k \in ServerIds |-> k]
NoCatalog == [s \in ServerIds |-> {}]

TokenIdle ==
    /\ now = 0
    /\ storage_token = NoToken
    /\ current_tokens = NoToken
    /\ token_expiry_time = {}
    /\ issued_at = 0
    /\ flow = NoFlow

ResolverIdle ==
    /\ variant = "none"
    /\ dpc = "idle"
    /\ server_url = [scheme |-> "", netloc |-> "", path |-> ""]
    /\ response = NoProbe
    /\ resource_metadata_url = NoUrl
    /\ metadata_response = NoMetadata
    /\ discovered = NoDiscovery

InteractiveIdle ==
    /\ ipc = "idle"
    /\ iattempt = 0
    /\ client_id = "None"
    /\ listeners = [a \in Attempts |-> NoListener]
    /\ callback_data = NoCallbackData
    /\ waited = 0
    /\ handler = NoHandler
    /\ ierror = "none"
    /\ ivariant = "none"
    /\ get_request = NoGet
    /\ browser = "none"

NoTools == [listed |-> FALSE, value |-> <<>>]
NoHook == [pc |-> "idle"]
NoEvaluation == [evaluated |-> FALSE]
NoCreated == [fn |-> "none"]
NoHttp == [handled |-> FALSE]

ExtIdle ==
    /\ ResolverIdle
    /\ InteractiveIdle
    /\ tools = NoTools
    /\ closes = <<>>
    /\ hook = NoHook
    /\ evaluation = NoEvaluation
    /\ created = NoCreated
    /\ http = NoHttp

\* Servers(servers) just constructed, one retry budget chosen.
Init ==
    /\ retries \in 1..MaxRetries
    /\ pc = "enter" /\ rpc = "try"
    /\ cur = 1 /\ attempt = 0
    /\ initialized_servers = <<>>
    /\ servers = ConfiguredServers
    /\ transport_context = [s \in ServerIds |-> "None"]
    /\ session_context = [s \in ServerIds |-> "None"]
    /\ initCalls = [s \in ServerIds |-> 0]
    /\ initFails = [s \in ServerIds |-> 0]
    /\ delays = [s \in ServerIds |-> 0]
    /\ exitCalls = [s \in ServerIds |-> 0]
    /\ exitAfterInit = [s \in ServerIds |-> 0]
    /\ closeLog = <<>>
    /\ tdIdx = 1
    /\ error = NoError
    /\ catalog = NoCatalog
    /\ lastCall = NoCall
    /\ TokenIdle
    /\ ExtIdle

Next ==
    \/ \E o \in InitializeOutcomes : ServerEnter(o)
    \/ \E sOut \in ExitOutcomes, tOut \in ExitOutcomes, bOut \in ExitOutcomes :
          ServerRetryClose(sOut, tOut, bOut)
    \/ RetrySleep
    \/ \E sOut \in ExitOutcomes, tOut \in ExitOutcomes, bOut \in ExitOutcomes :
          ServersExit(sOut, tOut, bOut)

Spec == Init /\ [][Next]_vars

\* The bring-up for any retry budget, zero included.
RetryInit ==
    /\ retries \in 0..MaxRetries
    /\ pc = "enter" /\ rpc = "try"
    /\ cur = 1 /\ attempt = 0
    /\ initialized_servers = <<>>
    /\ servers = ConfiguredServers
    /\ transport_context = [s \in ServerIds |-> "None"]
    /\ session_context = [s \in ServerIds |-> "None"]
    /\ initCalls = [s \in ServerIds |-> 0]
    /\ initFails = [s \in ServerIds |-> 0]
    /\ delays = [s \in ServerIds |-> 0]
    /\ exitCalls = [s \in ServerIds |-> 0]
    /\ exitAfterInit = [s \in ServerIds |-> 0]
    /\ closeLog = <<>>
    /\ tdIdx = 1
    /\ error = NoError
    /\ catalog = NoCatalog
    /\ lastCall = NoCall
    /\ TokenIdle
    /\ ExtIdle

\* The while loop of _initialize_server_with_retry ends without having
\* returned or raised: the function returns None, and Servers.__aenter__
\* appends that to initialized_servers.
ServerFallThrough ==
    /\ pc = "enter" /\ rpc = "try"
    /\ ~LoopCond(attempt, retries)
    /\ initialized_servers' = Append(initialized_servers, NoServer)
    /\ attempt' = 0
    /\ IF cur = Len(servers)
       THEN /\ pc' = "up"
            /\ servers' = initialized_servers'
            /\ cur' = cur
       ELSE /\ pc' = "enter"
            /\ servers' = servers
            /\ cur' = cur + 1
    /\ UNCHANGED <<retries, rpc, transport_context, session_context, initCalls,
                   initFails, delays, exitCalls, exitAfterInit, closeLog, tdIdx,
                   error, catalog, lastCall, tokenVars, extVars>>

\* One iteration of Servers.__aexit__ on an entry that is None: reading its
\* name raises AttributeError, which leaves the loop.
ServersExitNone ==
    /\ pc \in {"up", "exiting"}
    /\ tdIdx <= Len(servers)
    /\ TeardownOrder(servers)[tdIdx] = NoServer
    /\ pc' = "exit_raised"
    /\ error' = [kind |-> "AttributeError", server |-> NoServer]
    /\ UNCHANGED <<retries, rpc, cur, attempt, initialized_servers, servers,
                   transport_context, session_context, initCalls, initFails,
                   delays, exitCalls, exitAfterInit, closeLog, tdIdx, catalog,
                   lastCall, tokenVars, extVars>>

RetryNext ==
    \/ Next
    \/ ServerFallThrough
    \/ ServersExitNone

RetrySpec == RetryInit /\ [][RetryNext]_vars

\* The caller cancels the bring-up while Servers.__aenter__ is suspended:
\* inside server.__aenter__() at the point o names, inside the close of a
\* failed attempt, or inside the delay between two attempts. CancelledError
\* is not an Exception: no except clause of the retry loop or of initialize
\* handles it, and it leaves Servers.__aenter__.
CancelBringUp(o) ==
    /\ pc = "enter"
    /\ LET s == servers[cur] IN
        /\ IF rpc = "try"
           THEN /\ LoopCond(attempt, retries)
                /\ initCalls' = Bump(initCalls, s)
                /\ transport_context' = [transport_context EXCEPT
                                           ![s] = TransportAfterInitialize(@, o)]
                /\ session_context' = [session_context EXCEPT
                                         ![s] = SessionAfterInitialize(@, o)]
           ELSE /\ o = "fail_pre"
                /\ UNCHANGED <<initCalls, transport_context, session_context>>
        /\ pc' = "cancelled"
        /\ error' = [kind |-> "cancelled", server |-> s]
    /\ UNCHANGED <<retries, rpc, cur, attempt, initialized_servers, servers,
                   initFails, delays, exitCalls, exitAfterInit, closeLog, tdIdx,
                   catalog, lastCall, tokenVars, extVars>>

CancelNext ==
    \/ Next
    \/ \E o \in InitializeOutcomes \ {"ok"} : CancelBringUp(o)

CancelSpec == Init /\ [][CancelNext]_vars

\* ------------------------------------------- one session closed repeatedly
\* The __aexit__ calls made on the two contexts by one session's __aexit__,
\* in the order they are made, each with what it did.
Releases(sctx, tctx, sOut, tOut) ==
    (IF sctx # "None" THEN <<[what |-> "session", out |-> sOut]>> ELSE <<>>)
    \o (IF ~SessionExitRaises(sctx, sOut) /\ tctx # "None"
        THEN <<[what |-> "transport", out |-> tOut]>> ELSE <<>>)

\* Whether an exception of those calls leaves the try block of __aexit__:
\* the except clause logs it.
ReleaseEscapes(sctx, tctx, sOut, tOut) == FALSE

\* initialize() of the first configured session, with its outcome.
SessionInitialize(o) ==
    /\ closes = <<>>
    /\ transport_context[1] = "None" /\ session_context[1] = "None"
    /\ initCalls[1] < MaxCloses
    /\ initCalls' = Bump(initCalls, 1)
    /\ transport_context' = [transport_context EXCEPT
                               ![1] = TransportAfterInitialize(@, o)]
    /\ session_context' = [session_context EXCEPT
                             ![1] = SessionAfterInitialize(@, o)]
    /\ UNCHANGED <<retries, pc, rpc, cur, attempt, initialized_servers, servers,
                   initFails, delays, exitCalls, exitAfterInit, closeLog, tdIdx,
                   error, catalog, lastCall, tokenVars, extVars>>

\* One __aexit__ of that session.
SessionClose(sOut, tOut, bOut) ==
    /\ initCalls[1] > 0
    /\ Len(closes) < MaxCloses
    /\ exitCalls' = Bump(exitCalls, 1)
    /\ session_context' = [session_context EXCEPT
                             ![1] = SessionAfterExit(@, sOut)]
    /\ transport_context' = [transport_context EXCEPT
                               ![1] = TransportAfterExit(session_context[1], @, sOut, tOut)]
    /\ closes' = Append(closes,
          [released |-> Releases(session_context[1], transport_context[1], sOut, tOut),
           escaped |-> ReleaseEscapes(session_context[1], transport_context[1], sOut, tOut),
           raised |-> ServerExitRaises(bOut)])
    /\ UNCHANGED <<retries, pc, rpc, cur, attempt, initialized_servers, servers,
                   initCalls, initFails, delays, exitAfterInit, closeLog, tdIdx,
                   error, catalog, lastCall, tokenVars, resolverVars,
                   interactiveVars, routerVars, auxVars>>

SessionNext ==
    \/ \E o \in InitializeOutcomes : SessionInitialize(o)
    \/ \E sOut \in ExitOutcomes, tOut \in ExitOutcomes, bOut \in ExitOutcomes :
          SessionClose(sOut, tOut, bOut)

SessionSpec == Init /\ [][SessionNext]_vars

\* ------------------------------------------------------ tool router (Servers)
NotFound == 0

\* What server.execute_tool can do: return a success or an error result, or
\* raise a ValueError or an exception of another type.
ToolOutcomes == {"success", "error", "ValueError", "RuntimeError"}

\* server.list_tools(): the tool names of the session's catalog.
list_tools(cat, server) == cat[server]

\* The tools of one session's catalog as the list its list_tools returns.
RECURSIVE ToolList(_)
ToolList(S) ==
    IF S = {} THEN <<>>
    ELSE LET t == CHOOSE m \in S : \A n \in S : m <= n
         IN <<t>> \o ToolList(S \ {t})

\* The loop of Servers.list_tools from position k of self.servers on.
RECURSIVE list_all_from(_, _, _)
list_all_from(k, srvs, cat) ==
    IF k > Len(srvs) THEN <<>>
    ELSE ToolList(list_tools(cat, srvs[k])) \o list_all_from(k + 1, srvs, cat)

\* A list_tools that walks the pool from its last server to its first.
Servers_list_tools_reversed(srvs, cat) == list_all_from(1, Reversed(srvs), cat)

\* Servers.list_tools()
Servers_list_tools(srvs, cat) == list_all_from(1, srvs, cat)

\* The linear search of find_server_with_tool from position k on: the first
\* server whose list_tools contains tool_name; NotFound stands for its
\* ValueError.
RECURSIVE find_from(_, _, _, _)
find_from(k, srvs, cat, tool_name) ==
    IF k > Len(srvs) THEN NotFound
    ELSE IF tool_name \in list_tools(cat, srvs[k]) THEN srvs[k]
    ELSE find_from(k + 1, srvs, cat, tool_name)

\* The search that keeps the last match instead of returning at the first.
RECURSIVE find_last_from(_, _, _, _, _)
find_last_from(k, srvs, cat, tool_name, found) ==
    IF k > Len(srvs) THEN found
    ELSE find_last_from(k + 1, srvs, cat, tool_name,
                        IF tool_name \in list_tools(cat, srvs[k]) THEN srvs[k]
                        ELSE found)

find_last_server_with_tool(srvs, cat, tool_name) ==
    find_last_from(1, srvs, cat, tool_name, NotFound)

find_server_with_tool(srvs, cat, tool_name) == find_from(1, srvs, cat, tool_name)

\* The result a session's execute_tool returns.
ServerResult(tool_use_id, status) ==
    [toolUseId |-> tool_use_id,
     content |-> <<[text |-> IF status = "success" THEN <<"tool output">>
                             ELSE <<"Error executing tool">>]>>,
     status |-> status]

\* The envelope with the two identifiers mixed up.
NotFoundEnvelopeSwapped(tool_name, tool_use_id) ==
    [toolResult |->
        [toolUseId |-> tool_name,
         content |-> <<[text |-> <<"No server found with tool: ", tool_use_id>>]>>,
         status |-> "error"]]

\* The envelope built by the `except ValueError` branch.
NotFoundEnvelope(tool_name, tool_use_id) ==
    [toolResult |->
        [toolUseId |-> tool_use_id,
         content |-> <<[text |-> <<"No server found with tool: ", tool_name>>]>>,
         status |-> "error"]]

\* Whether the exception type is handled by execute_tool's except clause.
Caught(o) == o = "ValueError"

\* Servers.execute_tool(tool_name, tool_use_id, arguments); o is what the
\* owning server's execute_tool does when it is called.
ExecuteTool(tool_name, tool_use_id, o) ==
    /\ pc = "up"
    /\ LET server == find_server_with_tool(servers, catalog, tool_name)
           call == [tool_name |-> tool_name, tool_use_id |-> tool_use_id,
                    invoked |-> IF server = NotFound THEN <<>> ELSE <<server>>,
                    outcome |-> IF server = NotFound THEN "none" ELSE o]
       IN lastCall' =
            IF server = NotFound
            THEN [kind |-> "returned", call |-> call,
                  value |-> NotFoundEnvelope(tool_name, tool_use_id)]
            ELSE IF o \in {"success", "error"}
            THEN [kind |-> "returned", call |-> call,
                  value |-> [toolResult |-> ServerResult(tool_use_id, o)]]
            ELSE IF Caught(o)
            THEN [kind |-> "returned", call |-> call,
                  value |-> NotFoundEnvelope(tool_name, tool_use_id)]
            ELSE [kind |-> "raised", call |-> call,
                  value |-> [exception |-> o]]
    /\ UNCHANGED <<retries, pc, rpc, cur, attempt, initialized_servers, servers,
                   transport_context, session_context, initCalls, initFails,
                   delays, exitCalls, exitAfterInit, closeLog, tdIdx, error,
                   catalog, tokenVars, extVars>>

\* The pool after a bring-up in which every server initialized at its first
\* attempt, each server advertising some set of tools.
RouterInit ==
    /\ retries = MaxRetries
    /\ pc = "up" /\ rpc = "try"
    /\ cur = NumServers /\ attempt = 0
    /\ initialized_servers = ConfiguredServers
    /\ servers = ConfiguredServers
    /\ transport_context = [s \in ServerIds |-> "open"]
    /\ session_context = [s \in ServerIds |-> "open"]
    /\ initCalls = [s \in ServerIds |-> 1]
    /\ initFails = [s \in ServerIds |-> 0]
    /\ delays = [s \in ServerIds |-> 0]
    /\ exitCalls = [s \in ServerIds |-> 0]
    /\ exitAfterInit = [s \in ServerIds |-> 0]
    /\ closeLog = <<>>
    /\ tdIdx = 1
    /\ error = NoError
    /\ catalog \in [ServerIds -> SUBSET ToolNames]
    /\ lastCall = NoCall
    /\ TokenIdle
    /\ ExtIdle

\* One call of Servers.list_tools on the pool that is up.
ListTools ==
    /\ pc = "up"
    /\ tools' = [listed |-> TRUE, value |-> Servers_list_tools(servers, catalog)]
    /\ UNCHANGED <<poolVars, tokenVars, resolverVars, interactiveVars,
                   sessionVars, auxVars>>

RouterNext ==
    \/ \E tool_name \in ToolNames, tool_use_id \in ToolUseIds, o \in ToolOutcomes :
          ExecuteTool(tool_name, tool_use_id, o)
    \/ ListTools

RouterSpec == RouterInit /\ [][RouterNext]_vars

\* ------------------------------- token flow (AutomatedOAuthClientProvider)
\* An optional number is the empty set (None) or the set of its value.
Value(opt) == CHOOSE v \in opt : TRUE

AccessTokens == {"", "tok1", "tok2"}
TokenTypes == {"absent", "Bearer", "MAC"}
ExpiresIn == {{}} \cup {{e} : e \in 0..MaxExpiresIn}
TokenStatuses == {200, 201, 400}
Bodies == {"invalid_client", "server_error"}
Callers == {"create_transport", "async_auth_flow"}

\* What one candidate discovery URL answers: 200 with metadata, 200 with
\* metadata that has no token endpoint, 200 with a body that does not parse,
\* another status, or a request that raises.
CandidateAnswers == {"ok", "ok_no_endpoint", "unparsable", "non200", "raise"}
CandidateLists ==
    UNION {[1..n -> CandidateAnswers] : n \in 1..NumCandidates}

\* context.update_token_expiry(token), evaluated at time t: the token carries
\* only expires_in, so the expiry is counted from t.
update_token_expiry(token, t) ==
    IF token.expires_in # {} /\ Value(token.expires_in) # 0
    THEN {t + Value(token.expires_in)}
    ELSE {}

\* A validity test that holds only once the expiry has passed.
is_token_valid_past(tokens, expiry, t) ==
    /\ tokens.present /\ tokens.access_token # ""
    /\ (expiry = {} \/ t > Value(expiry))

\* context.is_token_valid(), evaluated at time t.
is_token_valid(tokens, expiry, t) ==
    /\ tokens.present
    /\ tokens.access_token # ""
    /\ (expiry = {} \/ t <= Value(expiry))

\* The OAuthToken built from a 200 token response.
TokenFromResponse(access_token, token_type, expires_in) ==
    [present |-> TRUE,
     access_token |-> access_token,
     token_type |-> IF token_type = "absent" THEN "Bearer" ELSE token_type,
     expires_in |-> expires_in]

\* The header value async_auth_flow puts on the request; <<>> when it sets none.
AuthorizationHeader(tokens) ==
    IF tokens.present /\ tokens.access_token # ""
    THEN <<IF tokens.token_type = "" THEN "Bearer" ELSE tokens.token_type,
           " ", tokens.access_token>>
    ELSE <<>>

\* What async_auth_flow does after the flow has returned: it yields the request.
YieldRequest(caller, tokens) ==
    IF caller = "async_auth_flow"
    THEN [sent |-> TRUE, authorization |-> AuthorizationHeader(tokens)]
    ELSE NoRequest

\* A check that lets every status below 300 pass.
TokenStatusAnySuccess(status) == status < 300

\* The token endpoint's status counts as success.
TokenStatusOk(status) == status = 200

\* The error raised for a token response that is not a success.
TokenRequestError(status, body) ==
    [kind |-> "RuntimeError", status |-> status, body |-> body]

\* An answer the discovery loop accepts: HTTP 200 with a body that parses.
Accepts(answer) == answer \in {"ok", "ok_no_endpoint"}

\* A loop that gives up at the first candidate instead of skipping it.
discover_not_skipping(k, resps, requested) ==
    [accepted |-> IF Accepts(resps[k]) THEN k ELSE 0,
     requested |-> Append(requested, k)]

\* The loop of _discover_oauth_metadata from candidate k on: GET each URL in
\* turn and return at the first accepted answer; accepted = 0 stands for the
\* RuntimeError raised after the loop.
RECURSIVE discover_from(_, _, _)
\* A loop that asks a candidate that failed a second time before moving on.
discover_retrying(k, resps, requested) ==
    IF k > Len(resps) THEN [accepted |-> 0, requested |-> requested]
    ELSE IF Accepts(resps[k])
    THEN [accepted |-> k, requested |-> Append(requested, k)]
    ELSE discover_from(k + 1, resps, requested \o <<k, k>>)

discover_from(k, resps, requested) ==
    IF k > Len(resps) THEN [accepted |-> 0, requested |-> requested]
    ELSE IF Accepts(resps[k])
    THEN [accepted |-> k, requested |-> Append(requested, k)]
    ELSE discover_from(k + 1, resps, Append(requested, k))

discover_oauth_metadata(resps) == discover_from(1, resps, <<>>)

InProgress == {"discovering", "discovered", "exchanging"}

\* perform_client_credentials_flow() up to its first network call: the check
\* of the stored token. caller says who awaits the flow.
FlowStart(caller) ==
    /\ flow.result \notin InProgress
    /\ LET stored == storage_token
           checked == stored.present /\ stored.access_token # ""
           cur1 == IF checked THEN stored ELSE current_tokens
           exp1 == IF checked THEN update_token_expiry(stored, now)
                   ELSE token_expiry_time
           begun == [NoFlow EXCEPT !.caller = caller,
                                   !.stored_before = stored,
                                   !.current_before = current_tokens,
                                   !.issued_before = issued_at]
       IN /\ current_tokens' = cur1
          /\ token_expiry_time' = exp1
          /\ flow' = IF checked /\ is_token_valid(cur1, exp1, now)
                     THEN [begun EXCEPT !.result = "reused",
                                        !.request = YieldRequest(caller, cur1)]
                     ELSE [begun EXCEPT !.result = "discovering"]
    /\ UNCHANGED <<now, storage_token, issued_at, poolVars, extVars>>

\* _discover_oauth_metadata() and the check of the token endpoint; resps are
\* the answers of the candidate URLs.
FlowDiscover(resps) ==
    /\ flow.result = "discovering"
    /\ LET d == discover_oauth_metadata(resps)
           log == [flow EXCEPT !.resps = resps,
                               !.requested = d.requested,
                               !.accepted = d.accepted,
                               !.gets = Len(d.requested)]
       IN flow' = IF d.accepted = 0
                  THEN [log EXCEPT !.result = "failed_discovery"]
                  ELSE IF resps[d.accepted] = "ok_no_endpoint"
                  THEN [log EXCEPT !.result = "failed_no_endpoint"]
                  ELSE [log EXCEPT !.result = "discovered"]
    /\ UNCHANGED <<now, storage_token, current_tokens, token_expiry_time,
                   issued_at, poolVars, extVars>>

\* The client information is created and stored and the token request built.
FlowClientInfo ==
    /\ flow.result = "discovered"
    /\ flow' = [flow EXCEPT !.result = "exchanging", !.resps = <<>>,
                            !.requested = <<>>, !.accepted = 0]
    /\ UNCHANGED <<now, storage_token, current_tokens, token_expiry_time,
                   issued_at, poolVars, extVars>>

\* The POST to the token endpoint and the handling of its answer.
FlowTokenRequest(status, body, access_token, token_type, expires_in) ==
    /\ flow.result = "exchanging"
    /\ LET posted == [flow EXCEPT !.posts = @ + 1,
                                  !.response = [status |-> status, body |-> body]]
       IN IF ~TokenStatusOk(status)
          THEN /\ flow' = [posted EXCEPT !.result = "failed_token",
                                         !.error = TokenRequestError(status, body)]
               /\ UNCHANGED <<storage_token, current_tokens, token_expiry_time,
                              issued_at>>
          ELSE LET tokens == TokenFromResponse(access_token, token_type, expires_in) IN
               /\ storage_token' = tokens
               /\ current_tokens' = tokens
               /\ token_expiry_time' = update_token_expiry(tokens, now)
               /\ issued_at' = now
               /\ flow' = [posted EXCEPT !.result = "fetched",
                                         !.request = YieldRequest(flow.caller, tokens)]
    /\ UNCHANGED <<now, poolVars, extVars>>

\* The clock advances between two invocations of the flow.
Tick ==
    /\ flow.result \notin InProgress
    /\ now < MaxTime
    /\ now' = now + 1
    /\ flow' = NoFlow
    /\ UNCHANGED <<storage_token, current_tokens, token_expiry_time, issued_at,
                   poolVars, extVars>>

TokenInit ==
    /\ retries = MaxRetries
    /\ pc = "enter" /\ rpc = "try"
    /\ cur = 1 /\ attempt = 0
    /\ initialized_servers = <<>>
    /\ servers = ConfiguredServers
    /\ transport_context = [s \in ServerIds |-> "None"]
    /\ session_context = [s \in ServerIds |-> "None"]
    /\ initCalls = [s \in ServerIds |-> 0]
    /\ initFails = [s \in ServerIds |-> 0]
    /\ delays = [s \in ServerIds |-> 0]
    /\ exitCalls = [s \in ServerIds |-> 0]
    /\ exitAfterInit = [s \in ServerIds |-> 0]
    /\ closeLog = <<>>
    /\ tdIdx = 1
    /\ error = NoError
    /\ catalog = NoCatalog
    /\ lastCall = NoCall
    /\ TokenIdle
    /\ ExtIdle

TokenNext ==
    \/ \E caller \in Callers : FlowStart(caller)
    \/ \E resps \in CandidateLists : FlowDiscover(resps)
    \/ FlowClientInfo
    \/ \E status \in TokenStatuses, body \in Bodies,
          access_token \in AccessTokens, token_type \in TokenTypes,
          expires_in \in ExpiresIn :
            FlowTokenRequest(status, body, access_token, token_type, expires_in)
    \/ Tick

TokenSpec == TokenInit /\ [][TokenNext]_vars

\* ------------------------- protected-resource discovery (OAuth clients)
\* The three discoveries of the repository: AutomatedOAuthClient of the e2e
\* tests, AutomatedOAuthClient of server_clients, and the interactive client's
\* discover_scope.
Variants == {"e2e", "server_clients", "interactive"}

ServerUrls ==
    {[scheme |-> "https", netloc |-> "mcp.example", path |-> "/mcp"],
     [scheme |-> "http", netloc |-> "localhost:8080", path |-> ""]}

\* A WWW-Authenticate header is a sequence of lexical items: the literal
\* resource_metadata= , a double quote, a separator (comma or whitespace)
\* and any other character.
HeaderItems == {"resource_metadata=", "\"", ",", "u"}
Headers ==
    {{}} \cup {{h} : h \in UNION {[1..n -> HeaderItems] : n \in 0..MaxHeaderLen}}
ProbeStatuses == {200, 401, 403}
AuthServerNames == {"as1", "as2"}
ScopeNames == {"read", "write"}
AuthServerLists == UNION {[1..n -> AuthServerNames] : n \in 0..MaxAuthServers}
ScopeLists == UNION {[1..n -> ScopeNames] : n \in 0..MaxScopes}
MetadataResponses ==
    {[NoMetadata EXCEPT !.status_code = 404],
     [NoMetadata EXCEPT !.status_code = 200]}
    \cup {[status_code |-> 200, valid |-> TRUE, authorization_servers |-> a,
           scopes_supported |-> sc] :
             a \in AuthServerLists, sc \in {{}} \cup {{l} : l \in ScopeLists}}

\* The positions of item x in h at or after position from.
Positions(h, x, from) == {j \in from..Len(h) : h[j] = x}

Least(S) == CHOOSE m \in S : \A n \in S : m <= n

\* "([^"]+)" tried right after the key at position i: the text between the
\* quote at i+1 and the next quote, when it is not empty; <<>> for no match.
quoted_value(h, i) ==
    IF i + 1 <= Len(h) /\ h[i + 1] = "\"" /\ Positions(h, "\"", i + 2) # {}
       /\ Least(Positions(h, "\"", i + 2)) > i + 2
    THEN SubSeq(h, i + 2, Least(Positions(h, "\"", i + 2)) - 1)
    ELSE <<>>

\* ([^\s,]+) tried right after the key at position i: the longest run of
\* items that are not separators.
unquoted_value(h, i) ==
    IF i + 1 <= Len(h) /\ h[i + 1] # ","
    THEN SubSeq(h, i + 1,
                IF Positions(h, ",", i + 1) = {} THEN Len(h)
                ELSE Least(Positions(h, ",", i + 1)) - 1)
    ELSE <<>>

\* re.search(pattern, header) from position i on, then
\* match.group(1) or match.group(2); <<>> when nothing matches.
RECURSIVE search_from(_, _)
search_from(h, i) ==
    IF i > Len(h) THEN <<>>
    ELSE IF h[i] = "resource_metadata=" /\ quoted_value(h, i) # <<>>
    THEN quoted_value(h, i)
    ELSE IF h[i] = "resource_metadata=" /\ unquoted_value(h, i) # <<>>
    THEN unquoted_value(h, i)
    ELSE search_from(h, i + 1)

\* urljoin(f"{scheme}://{netloc}", "/.well-known/oauth-protected-resource")
well_known_url(url) ==
    [from |-> "well_known",
     text |-> <<url.scheme, "://", url.netloc,
                "/.well-known/oauth-protected-resource">>]

header_url(h) == [from |-> "header", text |-> search_from(h, 1)]

\* The header is there and is not the empty string.
HeaderPresent(header) == header # {} /\ Value(header) # <<>>

\* The URL the resource metadata is fetched from.
metadata_url_for(url, header) ==
    IF HeaderPresent(header) /\ search_from(Value(header), 1) # <<>>
    THEN header_url(Value(header))
    ELSE well_known_url(url)

\* " ".join(scopes)
RECURSIVE join(_)
join(scopes) ==
    IF scopes = <<>> THEN <<>>
    ELSE IF Len(scopes) = 1 THEN scopes
    ELSE <<Head(scopes), " ">> \o join(Tail(scopes))

\* The scope taken from the metadata: "" when scopes_supported is absent or
\* empty.
scope_of(metadata) ==
    IF metadata.scopes_supported = {} THEN <<>>
    ELSE join(Value(metadata.scopes_supported))

Raised(message) == [NoDiscovery EXCEPT !.kind = "raised", !.error = message]
Returned(scope, authorization_server) ==
    [NoDiscovery EXCEPT !.kind = "returned", !.scope = scope,
                        !.authorization_server = authorization_server]

\* The probe request and the choice of the metadata URL.
Probe(v, url, status_code, header) ==
    /\ dpc = "idle"
    /\ variant' = v
    /\ server_url' = url
    /\ response' = [status_code |-> status_code, www_auth_header |-> header]
    /\ IF v # "interactive" /\ status_code # 401
       THEN /\ discovered' = Raised("Expected 401 response for OAuth discovery")
            /\ dpc' = "done"
            /\ UNCHANGED resource_metadata_url
       ELSE IF v = "server_clients" /\ ~HeaderPresent(header)
       THEN /\ discovered' = Raised("No WWW-Authenticate header found in response")
            /\ dpc' = "done"
            /\ UNCHANGED resource_metadata_url
       ELSE /\ resource_metadata_url' =
                  IF v = "interactive" /\ status_code # 401
                  THEN well_known_url(url)
                  ELSE metadata_url_for(url, header)
            /\ dpc' = "fetching"
            /\ UNCHANGED discovered
    /\ UNCHANGED <<metadata_response, poolVars, tokenVars, interactiveVars,
                   routerVars, sessionVars, auxVars>>

\* The fetch of the resource metadata and what is made of it.
Fetch(m) ==
    /\ dpc = "fetching"
    /\ metadata_response' = m
    /\ dpc' = "done"
    /\ discovered' =
         IF m.status_code # 200
         THEN IF variant = "interactive" THEN Returned(<<>>, "")
              ELSE Raised("Failed to fetch resource metadata")
         ELSE IF ~m.valid THEN Raised("ValidationError")
         ELSE IF variant = "interactive" THEN Returned(scope_of(m), "")
         ELSE IF m.authorization_servers = <<>>
         THEN Raised("No authorization server found")
         ELSE Returned(scope_of(m), m.authorization_servers[1])
    /\ UNCHANGED <<variant, server_url, response, resource_metadata_url,
                   poolVars, tokenVars, interactiveVars,
                   routerVars, sessionVars, auxVars>>

ResolverInit == TokenInit

ResolverNext ==
    \/ /\ dpc = "idle"
       /\ \E v \in Variants, url \in ServerUrls, status_code \in ProbeStatuses,
             header \in Headers : Probe(v, url, status_code, header)
    \/ /\ dpc = "fetching"
       /\ \E m \in MetadataResponses : Fetch(m)

ResolverSpec == ResolverInit /\ [][ResolverNext]_vars

\* --------------------- interactive OAuth client and its callback listener
\* The two InteractiveOAuthClient of the repository: the one of the chatbot
\* examples (create_transport) and the one of server_clients (initialize).
InteractiveVariants == {"examples", "server_clients"}
Codes == {"c1", "c2"}
States == {"s1"}
Errors == {"access_denied"}
Paths == {"/callback", "/favicon.ico"}
ClientIds == {"None", "client-1"}
StartOutcomes == {"ok", "url_raises", "client_id_raises"}
ScopeOutcomes == {"ok", "raises"}
ConnectOutcomes == {"no_authorization", "authorization", "raises"}
FinishOutcomes == {"ok", "raises"}
BrowserOutcomes == {"opens", "raises"}

\* A listener is bound to the callback port.
PortBound(ls) == \E a \in Attempts : ls[a].socket = "open"

\* CallbackServer.start(): an HTTPServer bound to the port and its thread.
start(l) == [server |-> "serving", socket |-> "open", thread |-> "running"]

\* CallbackServer.stop(): shutdown(), server_close() and the join of the thread.
stop(l) ==
    IF l.server = "None" THEN l
    ELSE [server |-> "shutdown", socket |-> "closed", thread |-> "joined"]

Stops(l) == l.server = "shutdown"

\* A callback_handler that stops the listener only after a code arrived.
stop_on_success_only(l, kind) == IF kind = "returned" THEN stop(l) ELSE l

\* The finally clause of callback_handler: whatever wait_for_callback did.
callback_handler_exit(l, kind) == stop(l)

\* CallbackHandler.do_GET: the branch a request with these query parameters
\* takes ("None" is a parameter that is not there).
do_GET(v, path, code, err) ==
    IF v = "examples"
    THEN IF path # "/callback" THEN "not_found"
         ELSE IF err # "None" THEN "error"
         ELSE IF code # "None" THEN "code"
         ELSE "missing"
    ELSE IF code # "None" THEN "code"
         ELSE IF err # "None" THEN "error"
         ELSE "not_found"

\* The status do_GET sends on each of its branches.
send_response(branch) ==
    CASE branch = "code" -> 200
      [] branch = "not_found" -> 404
      [] OTHER -> 400

\* The first assignment to callback_data on a branch.
record_first(data, branch, code, err) ==
    CASE branch = "code" -> [data EXCEPT !.authorization_code = code]
      [] branch = "error" -> [data EXCEPT !.error = err]
      [] OTHER -> data

\* The second assignment of the code branch: the state.
record_state(data, state) == [data EXCEPT !.state = state]

\* One test of the loop of wait_for_callback, followed by get_state() when
\* it returns.
wait_for_callback_step(data) ==
    IF data.authorization_code # "None"
    THEN [NoHandler EXCEPT !.kind = "returned",
                           !.auth_code = data.authorization_code,
                           !.state = data.state]
    ELSE IF data.error # "None"
    THEN [NoHandler EXCEPT !.kind = "raised", !.error = data.error]
    ELSE NoHandler

\* A wait that returns normally when its time is up.
TimedOutQuietly == [NoHandler EXCEPT !.kind = "returned"]

TimedOut == [NoHandler EXCEPT !.kind = "raised", !.error = "Timeout"]

\* An _open_browser that lets the exception of webbrowser.open through.
open_browser_propagates(b) == b = "raises"

\* Whether _open_browser raises: the exception of webbrowser.open is caught.
open_browser_raises(b) == FALSE

\* The listener thread is between the two assignments of a code request.
InFlight(g) == g.listener # 0 /\ g.status = 0

\* The request in flight is finished: shutdown() returns only after it.
Finished(g) == IF InFlight(g) THEN [g EXCEPT !.status = send_response(g.branch)] ELSE g

FinishedData(data, g) == IF InFlight(g) THEN record_state(data, g.state) ELSE data

\* initialize() / create_transport() up to and including
\* callback_server.start().
InitializeStart(v, o, cid) ==
    /\ ipc \in {"idle", "closed"}
    /\ iattempt < MaxAttempts
    /\ ivariant \in {"none", v}
    /\ v = "examples" => o # "client_id_raises"
    /\ ivariant' = v
    /\ iattempt' = iattempt + 1
    /\ client_id' = cid
    /\ waited' = 0
    /\ handler' = NoHandler
    /\ browser' = "none"
    /\ IF o = "url_raises" \/ o = "client_id_raises"
       THEN /\ ipc' = "failed" /\ ierror' = o
            /\ UNCHANGED listeners
       ELSE IF PortBound(listeners)
       THEN /\ ipc' = "failed" /\ ierror' = "address_in_use"
            /\ UNCHANGED listeners
       ELSE /\ ipc' = "started" /\ ierror' = "none"
            /\ listeners' = [listeners EXCEPT ![iattempt + 1] = start(@)]
    /\ callback_data' = NoCallbackData
    /\ get_request' = NoGet
    /\ UNCHANGED <<poolVars, tokenVars, resolverVars,
                   routerVars, sessionVars, auxVars>>

\* discover_scope() and the two assignments of the scope that follow it.
DiscoverScope(o) ==
    /\ ipc = "started"
    /\ IF o = "raises" THEN ipc' = "failed" /\ ierror' = "discover_scope"
       ELSE IF ivariant = "server_clients" /\ client_id = "None"
       THEN ipc' = "failed" /\ ierror' = "UnboundLocalError"
       ELSE ipc' = "connecting" /\ UNCHANGED ierror
    /\ UNCHANGED <<iattempt, client_id, listeners, callback_data, waited,
                   handler, ivariant, get_request, browser,
                   poolVars, tokenVars, resolverVars,
                   routerVars, sessionVars, auxVars>>

\* The transport and the session are entered and the session initialized,
\* up to the point where the OAuth provider calls redirect_handler and then
\* callback_handler, if it does; b is what webbrowser.open does.
Connect(o, b) ==
    /\ ipc = "connecting"
    /\ IF o = "raises"
       THEN ipc' = "failed" /\ ierror' = "connect" /\ UNCHANGED browser
       ELSE IF o = "authorization"
       THEN /\ browser' = IF b = "raises" THEN "failed" ELSE "opened"
            /\ IF open_browser_raises(b)
               THEN ipc' = "failed" /\ ierror' = "browser"
               ELSE ipc' = "waiting" /\ UNCHANGED ierror
       ELSE ipc' = "ready" /\ UNCHANGED <<ierror, browser>>
    /\ UNCHANGED <<iattempt, client_id, listeners, callback_data, waited,
                   handler, ivariant, get_request,
                   poolVars, tokenVars, resolverVars,
                   routerVars, sessionVars, auxVars>>

\* callback_handler: one test of the loop of wait_for_callback, and the
\* finally clause when the wait is over.
Poll ==
    /\ ipc = "waiting"
    /\ LET data == callback_data
           h == IF waited < MaxPolls THEN wait_for_callback_step(data)
                ELSE TimedOut
       IN IF h.kind = "none"
          THEN /\ ipc' = "sleeping"
               /\ UNCHANGED <<listeners, handler, ierror, callback_data,
                              get_request>>
          ELSE /\ handler' = h
               /\ listeners' = [listeners EXCEPT
                      ![iattempt] = callback_handler_exit(@, h.kind)]
               /\ callback_data' =
                     IF Stops(listeners'[iattempt])
                     THEN FinishedData(callback_data, get_request)
                     ELSE callback_data
               /\ get_request' = IF Stops(listeners'[iattempt])
                                 THEN Finished(get_request) ELSE get_request
               /\ ipc' = IF h.kind = "returned" THEN "authorized" ELSE "failed"
               /\ ierror' = IF h.kind = "returned" THEN ierror ELSE "callback"
    /\ UNCHANGED <<iattempt, client_id, waited, ivariant, browser,
                   poolVars, tokenVars, resolverVars,
                   routerVars, sessionVars, auxVars>>

\* time.sleep(0.1) of wait_for_callback returns.
Wake ==
    /\ ipc = "sleeping"
    /\ ipc' = "waiting"
    /\ waited' = waited + 1
    /\ UNCHANGED <<iattempt, client_id, listeners, callback_data, handler,
                   ierror, ivariant, get_request, browser,
                   poolVars, tokenVars, resolverVars,
                   routerVars, sessionVars, auxVars>>

\* What is left of the handshake once callback_handler has returned a code.
FinishConnect(o) ==
    /\ ipc = "authorized"
    /\ IF o = "raises" THEN ipc' = "failed" /\ ierror' = "connect"
       ELSE ipc' = "ready" /\ UNCHANGED ierror
    /\ UNCHANGED <<iattempt, client_id, listeners, callback_data, waited,
                   handler, ivariant, get_request, browser,
                   poolVars, tokenVars, resolverVars,
                   routerVars, sessionVars, auxVars>>

\* The wait of this invocation is running and its time is not up.
WaitingInTime(a) ==
    /\ a = iattempt
    /\ \/ ipc = "sleeping" /\ waited < MaxPolls
       \/ ipc = "waiting" /\ waited < MaxPolls

\* The listener thread takes one GET arriving at the callback port: do_GET
\* up to and including its first assignment to callback_data. The data of a
\* listener left behind by an earlier invocation is read by nobody and is
\* not kept.
HandleRequest(path, code, state, err) ==
    /\ ~InFlight(get_request)
    /\ \E a \in Attempts :
          /\ listeners[a].server = "serving"
          /\ LET branch == do_GET(ivariant, path, code, err) IN
             /\ callback_data' = IF a = iattempt
                                 THEN record_first(callback_data, branch, code, err)
                                 ELSE callback_data
             /\ get_request' =
                  [path |-> path, code |-> code, state |-> state, err |-> err,
                   branch |-> branch,
                   status |-> IF branch = "code" THEN 0 ELSE send_response(branch),
                   listener |-> a, in_wait |-> WaitingInTime(a)]
    /\ UNCHANGED <<ipc, iattempt, client_id, listeners, waited, handler, ierror,
                   ivariant, browser, poolVars, tokenVars, resolverVars,
                   routerVars, sessionVars, auxVars>>

\* The rest of do_GET for a code request: the state is recorded and the
\* answer sent.
HandleRequestFinish ==
    /\ InFlight(get_request)
    /\ callback_data' = IF get_request.listener = iattempt
                        THEN FinishedData(callback_data, get_request)
                        ELSE callback_data
    /\ get_request' = Finished(get_request)
    /\ UNCHANGED <<ipc, iattempt, client_id, listeners, waited, handler, ierror,
                   ivariant, browser, poolVars, tokenVars, resolverVars,
                   routerVars, sessionVars, auxVars>>

\* InteractiveOAuthClient.__aexit__: the session and the transport are closed.
InteractiveExit ==
    /\ ipc \in {"ready", "failed"}
    /\ ipc' = "closed"
    /\ UNCHANGED <<iattempt, client_id, listeners, callback_data, waited,
                   handler, ierror, ivariant, get_request, browser,
                   poolVars, tokenVars, resolverVars,
                   routerVars, sessionVars, auxVars>>

InteractiveInit == TokenInit

InteractiveNext ==
    \/ \E v \in InteractiveVariants, o \in StartOutcomes, cid \in ClientIds :
          InitializeStart(v, o, cid)
    \/ \E o \in ScopeOutcomes : DiscoverScope(o)
    \/ \E o \in ConnectOutcomes, b \in BrowserOutcomes : Connect(o, b)
    \/ Poll
    \/ Wake
    \/ \E o \in FinishOutcomes : FinishConnect(o)
    \/ \E path \in Paths, code \in Codes \cup {"None"},
          state \in States \cup {"None"}, err \in Errors \cup {"None"} :
            HandleRequest(path, code, state, err)
    \/ HandleRequestFinish
    \/ InteractiveExit

InteractiveSpec == InteractiveInit /\ [][InteractiveNext]_vars

\* The wait loop and the listener thread keep running.
InteractiveFairSpec ==
    InteractiveSpec /\ WF_vars(Poll) /\ WF_vars(Wake) /\ WF_vars(HandleRequestFinish)

\* ------------------------------------------ retry hook (FailOnToolError)
\* A tool result as check_result reads it: its "isError" entry ("absent"
\* when the key is missing) and the "text" of its first content block
\* ("None" when that block has no text).
HookResults ==
    {[isError |-> "true", text |-> t] : t \in {"None", "e1", "e2"}}
    \cup {[isError |-> e, text |-> "ok"] : e \in {"false", "absent"}}

\* What one re-invocation of the tool does: return a result, or raise.
HookOutcomes ==
    {[kind |-> "returned", result |-> r] : r \in HookResults}
    \cup {[kind |-> "raised", result |-> [isError |-> "absent", text |-> "None"]]}

NoRaise == [type |-> "none"]

\* result.get("isError", False)
IsError(result) == result.isError = "true"

\* event.result.get("content", [{}])[0].get("text", "Unknown error")
error_content(result) == IF result.text = "None" THEN "Unknown error" ELSE result.text

\* A loop that runs once more than range(max_retries).
HookLoopCondInclusive(a, m) == a <= m

\* `for attempt in range(self.max_retries)`: whether iteration a runs.
HookLoopCond(a, m) == a < m

\* A retry that takes whatever the tool returned for a success.
RetrySucceededAlways(o) == o.kind = "returned"

\* The test made on what the re-invocation did: it returned, and the result
\* is not an error.
RetrySucceeded(o) == o.kind = "returned" /\ ~IsError(o.result)

\* The RuntimeError raised after the loop.
HookError(tool_name, m, text) ==
    [type |-> "RuntimeError", tool |-> tool_name, max_retries |-> m, text |-> text]

\* check_result(event) up to the first sleep: the test of event.result, and
\* the raise when the loop has no iteration.
CheckResult(tool_name, result, m) ==
    /\ hook.pc = "idle"
    /\ hook' = [pc |-> IF ~IsError(result) THEN "done"
                       ELSE IF HookLoopCond(0, m) THEN "sleep" ELSE "raised",
                tool_name |-> tool_name, max_retries |-> m,
                original |-> result, result |-> result,
                attempt |-> 0, sleeps |-> 0, outcomes |-> <<>>,
                raised |-> IF IsError(result) /\ ~HookLoopCond(0, m)
                           THEN HookError(tool_name, m, error_content(result))
                           ELSE NoRaise]
    /\ UNCHANGED <<poolVars, tokenVars, resolverVars, interactiveVars,
                   routerVars, sessionVars, evaluation, created, http>>

\* time.sleep(self.retry_delay) of one iteration.
HookSleep ==
    /\ hook.pc = "sleep"
    /\ hook' = [hook EXCEPT !.pc = "invoke", !.sleeps = @ + 1]
    /\ UNCHANGED <<poolVars, tokenVars, resolverVars, interactiveVars,
                   routerVars, sessionVars, evaluation, created, http>>

\* The rest of the iteration: the call of event.selected_tool, the test of
\* what it did, and the return, the next iteration or the raise.
HookInvoke(o) ==
    /\ hook.pc = "invoke"
    /\ hook' =
         IF RetrySucceeded(o)
         THEN [hook EXCEPT !.pc = "done", !.result = o.result,
                           !.outcomes = Append(@, o)]
         ELSE IF HookLoopCond(hook.attempt + 1, hook.max_retries)
         THEN [hook EXCEPT !.pc = "sleep", !.attempt = @ + 1,
                           !.outcomes = Append(@, o)]
         ELSE [hook EXCEPT !.pc = "raised", !.attempt = @ + 1,
                           !.outcomes = Append(@, o),
                           !.raised = HookError(hook.tool_name, hook.max_retries,
                                                error_content(hook.original))]
    /\ UNCHANGED <<poolVars, tokenVars, resolverVars, interactiveVars,
                   routerVars, sessionVars, evaluation, created, http>>

HookInit == TokenInit

HookNext ==
    \/ \E tool_name \in ToolNames, result \in HookResults, m \in 0..MaxHookRetries :
          CheckResult(tool_name, result, m)
    \/ HookSleep
    \/ \E o \in HookOutcomes : HookInvoke(o)

HookSpec == HookInit /\ [][HookNext]_vars

\* -------------------------------------------- evaluator (ToolCallEvaluator)
\* The sequences over S of length at most n.
SeqsUpTo(S, n) == UNION {[1..k -> S] : k \in 0..n}

\* The events of a trajectory: name is a tool name, or 0 for an event that
\* is not a dict with a 'name'; is_error is event.get('is_error', False).
TrajectoryEvents == [name : ToolNames \cup {0}, is_error : BOOLEAN]

\* The names of the tools that have a non-error event and no error event.
tool_successes_unless_error(trajectory) ==
    {trajectory[k].name : k \in {j \in DOMAIN trajectory :
        /\ trajectory[j].name # 0
        /\ \A i \in DOMAIN trajectory :
              trajectory[i].name = trajectory[j].name => ~trajectory[i].is_error}}

\* tool_successes after the loop over the trajectory.
tool_successes(trajectory) ==
    {trajectory[k].name : k \in {j \in DOMAIN trajectory :
        trajectory[j].name # 0 /\ ~trajectory[j].is_error}}

\* tool_errors after the loop over the trajectory.
tool_errors(trajectory) ==
    SelectSeq(trajectory, LAMBDA ev : ev.name # 0 /\ ev.is_error)

\* [t for t in self.expected_tools if t not in tool_successes]
missing_tools(expected_tools, successes) ==
    SelectSeq(expected_tools, LAMBDA t : t \notin successes)

\* The score, a quotient of two lengths, as the pair of its terms.
score_of(expected_tools, successes) ==
    IF expected_tools # <<>>
    THEN [num |-> Len(SelectSeq(expected_tools, LAMBDA t : t \in successes)),
          den |-> Len(expected_tools)]
    ELSE [num |-> 1, den |-> 1]

\* ToolCallEvaluator(expected_tools).evaluate(evaluation_case)
evaluate(expected_tools, trajectory) ==
    IF trajectory = <<>>
    THEN [score |-> [num |-> 0, den |-> 1], test_pass |-> FALSE,
          reason |-> [kind |-> "no_trajectory", missing |-> <<>>, errors |-> <<>>]]
    ELSE LET successes == tool_successes(trajectory)
             missing == missing_tools(expected_tools, successes)
         IN [score |-> score_of(expected_tools, successes),
             test_pass |-> Len(missing) = 0,
             reason |-> [kind |-> IF Len(missing) = 0 THEN "all_called" ELSE "missing",
                         missing |-> missing,
                         errors |-> tool_errors(trajectory)]]

\* One evaluation of a case.
Evaluate(expected_tools, trajectory) ==
    /\ evaluation = NoEvaluation
    /\ evaluation' = [evaluated |-> TRUE, expected_tools |-> expected_tools,
                      actual_trajectory |-> trajectory,
                      output |-> evaluate(expected_tools, trajectory)]
    /\ UNCHANGED <<poolVars, tokenVars, resolverVars, interactiveVars,
                   routerVars, sessionVars, hook, created, http>>

EvaluatorInit == TokenInit

EvaluatorNext ==
    \E expected_tools \in SeqsUpTo(ToolNames, MaxExpected),
       trajectory \in SeqsUpTo(TrajectoryEvents, MaxTrajectory) :
        Evaluate(expected_tools, trajectory)

EvaluatorSpec == EvaluatorInit /\ [][EvaluatorNext]_vars

\* ------------------------------------------- client construction (factories)
\* A configuration value: a key that is absent, an empty string, a string.
ConfigValues == {"absent", "", "x"}

\* The two spellings of each configuration key, camelCase first.
InteractiveKeyPairs ==
    {<<"serverUrl", "server_url">>,
     <<"serverStackName", "server_stack_name">>,
     <<"serverSsmParameterName", "server_ssm_parameter_name">>}
LambdaKeyPairs ==
    {<<"functionUrl", "function_url">>, <<"stackName", "stack_name">>}

KeysOf(pairs) == {p[1] : p \in pairs} \cup {p[2] : p \in pairs}

\* The configurations that spell each key in one way at most.
Configs(pairs) ==
    {c \in [KeysOf(pairs) -> ConfigValues] :
        \A p \in pairs : c[p[1]] = "absent" \/ c[p[2]] = "absent"}

\* The LambdaFunctionUrlConfig objects: function_url and stack_name, each
\* None, empty or a string.
LambdaConfigObjects == [{"function_url", "stack_name"} -> {"None", "", "x"}]

LookupOutcomes == {"ok", "raises"}
Factories == {"examples", "e2e_tests"}

\* config.get(camel, config.get(snake)); "None" is Python's None.
Get(config, camel, snake) ==
    IF config[camel] # "absent" THEN config[camel]
    ELSE IF config[snake] # "absent" THEN config[snake]
    ELSE "None"

\* bool(value) of a string or None.
Truthy(value) == value \notin {"None", ""}

NoUrlUsed == [from |-> "none", value |-> "None"]

\* source_count: the sum of the truth values of the three sources.
source_count(url, server_stack_name, server_ssm_parameter_name) ==
    (IF Truthy(url) THEN 1 ELSE 0)
    + (IF Truthy(server_stack_name) THEN 1 ELSE 0)
    + (IF Truthy(server_ssm_parameter_name) THEN 1 ELSE 0)

\* A check that lets two sources through.
TooManySourcesOffByOne(n) == n > 2

\* `if source_count > 1`
TooManySources(n) == n > 1

\* A check that accepts a URL given together with a stack name.
BothSourcesNever(function_url, stack_name) == FALSE

\* `if function_url and stack_name`
BothSources(function_url, stack_name) == Truthy(function_url) /\ Truthy(stack_name)

\* `if not function_url and not stack_name`
NeitherSource(function_url, stack_name) == ~Truthy(function_url) /\ ~Truthy(stack_name)

\* create_interactive_oauth_client(name, config): lk is what the lookup of
\* the URL does, cid whether the client id is looked up.
create_interactive_oauth_client(config, lk, cid) ==
    LET url == Get(config, "serverUrl", "server_url")
        server_stack_name == Get(config, "serverStackName", "server_stack_name")
        server_ssm_parameter_name ==
            Get(config, "serverSsmParameterName", "server_ssm_parameter_name")
        n == source_count(url, server_stack_name, server_ssm_parameter_name)
        lookup == IF Truthy(server_stack_name) THEN <<"cloudformation">>
                  ELSE IF Truthy(server_ssm_parameter_name) THEN <<"ssm">>
                  ELSE <<>>
    IN IF n = 0 \/ TooManySources(n)
       THEN [outcome |-> "ValueError", calls |-> <<>>, url |-> NoUrlUsed]
       ELSE IF lookup # <<>> /\ lk = "raises"
       THEN [outcome |-> "ValueError", calls |-> lookup, url |-> NoUrlUsed]
       ELSE [outcome |-> "client",
             calls |-> lookup \o (IF cid THEN <<"cloudformation_client_id">> ELSE <<>>),
             url |-> IF lookup # <<>> THEN [from |-> lookup[1], value |-> "looked_up"]
                     ELSE [from |-> "config", value |-> url]]

\* create_lambda_function_url_client(name, config) of either mcp_clients.py;
\* the one of the examples also asks boto3 for credentials.
create_lambda_function_url_client(f, config, lk, credentials) ==
    LET function_url == Get(config, "functionUrl", "function_url")
        stack_name == Get(config, "stackName", "stack_name")
        lookup == IF Truthy(stack_name) THEN <<"cloudformation">> ELSE <<>>
        after == IF f = "examples" THEN <<"credentials">> ELSE <<>>
    IN IF NeitherSource(function_url, stack_name) \/ BothSources(function_url, stack_name)
       THEN [outcome |-> "ValueError", calls |-> <<>>, url |-> NoUrlUsed]
       ELSE IF lookup # <<>> /\ lk = "raises"
       THEN [outcome |-> "ValueError", calls |-> lookup, url |-> NoUrlUsed]
       ELSE IF f = "examples" /\ ~credentials
       THEN [outcome |-> "ValueError", calls |-> lookup \o after, url |-> NoUrlUsed]
       ELSE [outcome |-> "client", calls |-> lookup \o after,
             url |-> IF lookup # <<>> THEN [from |-> "cloudformation", value |-> "looked_up"]
                     ELSE [from |-> "config", value |-> function_url]]

\* LambdaFunctionUrlClient(name, config): the constructor makes no lookup;
\* the URL is the one initialize() will take.
LambdaFunctionUrlClient_init(config) ==
    IF NeitherSource(config["function_url"], config["stack_name"])
       \/ BothSources(config["function_url"], config["stack_name"])
    THEN [outcome |-> "ValueError", calls |-> <<>>, url |-> NoUrlUsed]
    ELSE [outcome |-> "client", calls |-> <<>>,
          url |-> IF Truthy(config["stack_name"])
                  THEN [from |-> "cloudformation", value |-> "looked_up"]
                  ELSE [from |-> "config", value |-> config["function_url"]]]

CreateInteractiveOAuthClient(config, lk, cid) ==
    /\ created = NoCreated
    /\ created' = [fn |-> "create_interactive_oauth_client", config |-> config,
                   pairs |-> InteractiveKeyPairs,
                   made |-> create_interactive_oauth_client(config, lk, cid)]
    /\ UNCHANGED <<poolVars, tokenVars, resolverVars, interactiveVars,
                   routerVars, sessionVars, hook, evaluation, http>>

CreateLambdaFunctionUrlClient(f, config, lk, credentials) ==
    /\ created = NoCreated
    /\ created' = [fn |-> "create_lambda_function_url_client", config |-> config,
                   pairs |-> LambdaKeyPairs,
                   made |-> create_lambda_function_url_client(f, config, lk, credentials)]
    /\ UNCHANGED <<poolVars, tokenVars, resolverVars, interactiveVars,
                   routerVars, sessionVars, hook, evaluation, http>>

ConstructLambdaFunctionUrlClient(config) ==
    /\ created = NoCreated
    /\ created' = [fn |-> "LambdaFunctionUrlClient", config |-> config,
                   pairs |-> {<<"function_url", "function_url">>,
                              <<"stack_name", "stack_name">>},
                   made |-> LambdaFunctionUrlClient_init(config)]
    /\ UNCHANGED <<poolVars, tokenVars, resolverVars, interactiveVars,
                   routerVars, sessionVars, hook, evaluation, http>>

FactoryInit == TokenInit

FactoryNext ==
    \/ \E config \in Configs(InteractiveKeyPairs), lk \in LookupOutcomes,
          cid \in BOOLEAN : CreateInteractiveOAuthClient(config, lk, cid)
    \/ \E f \in Factories, config \in Configs(LambdaKeyPairs),
          lk \in LookupOutcomes, credentials \in BOOLEAN :
            CreateLambdaFunctionUrlClient(f, config, lk, credentials)
    \/ \E config \in LambdaConfigObjects : ConstructLambdaFunctionUrlClient(config)

FactorySpec == FactoryInit /\ [][FactoryNext]_vars

\* ------------------------------------------------ Lambda event handlers
HandlerKinds ==
    {"APIGatewayProxyEventHandler", "APIGatewayProxyEventV2Handler",
     "LambdaFunctionURLEventHandler"}
HttpMethods == {"POST", "OPTIONS", "GET", "PUT", "DELETE"}
RpcMethods == {"ping", "error", "other"}
RequestIds == 1..MaxRequestId

\* The body of an event: a JSON-RPC request, or text that is not one.
EventBodies ==
    {[valid |-> TRUE, jsonrpc |-> "2.0", method |-> m, id |-> i] :
        m \in RpcMethods, i \in RequestIds}
    \cup {[valid |-> FALSE, jsonrpc |-> "", method |-> "", id |-> 0]}

\* The status codes a handler may give to a JSON-RPC error message.
ErrorStatuses == {200, 400, 404, 500}

\* A request handler that answers every request with the same id.
handle_request_fixed_id(request) ==
    IF request.method = "ping"
    THEN [jsonrpc |-> "2.0", kind |-> "response",
          result |-> [message |-> "pong"], id |-> 1]
    ELSE IF request.method = "error"
    THEN [jsonrpc |-> "2.0", kind |-> "error",
          error |-> [code |-> "INTERNAL_ERROR", message |-> "Test error"],
          id |-> 1]
    ELSE [jsonrpc |-> "2.0", kind |-> "error",
          error |-> [code |-> "METHOD_NOT_FOUND", message |-> "Method not found"],
          id |-> 1]

\* TestRequestHandler.handle_request(request, context)
handle_request(request) ==
    IF request.method = "ping"
    THEN [jsonrpc |-> "2.0", kind |-> "response",
          result |-> [message |-> "pong"], id |-> request.id]
    ELSE IF request.method = "error"
    THEN [jsonrpc |-> "2.0", kind |-> "error",
          error |-> [code |-> "INTERNAL_ERROR", message |-> "Test error"],
          id |-> request.id]
    ELSE [jsonrpc |-> "2.0", kind |-> "error",
          error |-> [code |-> "METHOD_NOT_FOUND", message |-> "Method not found"],
          id |-> request.id]

\* The JSON text of a message, and json.loads of such a text.
dumps(message) == <<"json", message>>
loads(text) == text[2]

\* Whether the event is a CORS preflight.
IsPreflight(method) == method = "OPTIONS"

\* A handler that refuses nothing.
MethodNotAllowedNever(method) == FALSE

\* Whether the method is refused.
MethodNotAllowed(method) == method \notin {"POST", "OPTIONS"}

\* handle(event, context) of the three handlers; s is the status given to a
\* JSON-RPC error message.
handle(kind, method, body, s) ==
    IF IsPreflight(method)
    THEN [statusCode |-> 200,
          headers |-> [x \in {"Access-Control-Allow-Origin",
                              "Access-Control-Allow-Methods"} |->
                          IF x = "Access-Control-Allow-Origin" THEN "*"
                          ELSE "POST, GET, OPTIONS"],
          body |-> <<>>]
    ELSE IF MethodNotAllowed(method)
    THEN [statusCode |-> 405,
          headers |-> [x \in {"Allow"} |-> "POST, OPTIONS"],
          body |-> <<>>]
    ELSE IF ~body.valid
    THEN [statusCode |-> 400,
          headers |-> [x \in {"Content-Type"} |-> "application/json"],
          body |-> dumps([jsonrpc |-> "2.0", kind |-> "error",
                          error |-> [code |-> "PARSE_ERROR", message |-> "Parse error"],
                          id |-> 0])]
    ELSE LET message == handle_request(body)
         IN [statusCode |-> IF message.kind = "response" THEN 200 ELSE s,
             headers |-> [x \in {"Content-Type"} |-> "application/json"],
             body |-> dumps(message)]

\* One invocation of a handler on an event.
Handle(kind, method, body, s) ==
    /\ http = NoHttp
    /\ http' = [handled |-> TRUE, kind |-> kind,
                event |-> [httpMethod |-> method, body |-> body],
                result |-> handle(kind, method, body, s)]
    /\ UNCHANGED <<poolVars, tokenVars, resolverVars, interactiveVars,
                   routerVars, sessionVars, hook, evaluation, created>>

HandlerInit == TokenInit

HandlerNext ==
    \E kind \in HandlerKinds, method \in HttpMethods, body \in EventBodies,
       s \in ErrorStatuses : Handle(kind, method, body, s)

HandlerSpec == HandlerInit /\ [][HandlerNext]_vars

\* ===================================================================== claims
Range(q) == {q[k] : k \in 1..Len(q)}
Min(S) == CHOOSE m \in S : \A n \in S : m <= n

\* The server being brought up is between a failed attempt and its close.
Closing(s) == pc = "enter" /\ rpc = "close" /\ servers[cur] = s

\* C1: with retries = N, a server whose every attempt fails is attempted
\* exactly N times with exactly N-1 delays and the bring-up then fails; a
\* server whose k-th attempt is the first to succeed is attempted exactly k
\* times with k-1 delays and is returned (appended to the initialized list).
C1_RetryCounts ==
    /\ pc = "failed" =>
          LET s == servers[cur] IN
            /\ initCalls[s] = retries
            /\ initFails[s] = retries
            /\ delays[s] = retries - 1
    /\ \A s \in ServerIds :
          /\ initFails[s] = retries /\ ~Closing(s) => pc = "failed" /\ servers[cur] = s
          /\ initCalls[s] > initFails[s] =>
                /\ s \in Range(initialized_servers)
                /\ initCalls[s] = initFails[s] + 1
                /\ initCalls[s] <= retries
                /\ delays[s] = initCalls[s] - 1

\* C1 witness: the first server succeeded at its second attempt and the second
\* server used up a budget of three attempts.
C1_Witness ==
    /\ pc = "failed" /\ retries = 3 /\ cur = 2
    /\ initCalls[1] = 2 /\ delays[1] = 1
    /\ initCalls[2] = 3 /\ delays[2] = 2

\* C2: when the bring-up has failed, every server initialized before the
\* failure has been closed exactly once and holds no open session or transport.
C2_SiblingsClosedOnFailure ==
    pc = "failed" =>
        \A s \in Range(initialized_servers) :
            /\ exitAfterInit[s] = 1
            /\ session_context[s] # "open"
            /\ transport_context[s] # "open"

\* C3: once teardown has ended, close has been invoked on the servers in
\* exactly the reverse of the bring-up order, each exactly once.
C3_TeardownReverseOrder ==
    pc \in {"closed", "exit_raised"} =>
        /\ Len(closeLog) = Len(initialized_servers)
        /\ \A k \in 1..Len(closeLog) :
              closeLog[k] = initialized_servers[Len(initialized_servers) + 1 - k]

\* C4: teardown never raises to its caller, and when it has ended close has
\* been invoked on every server of the pool.
C4_CloseFailureContained ==
    pc \in {"closed", "exit_raised"} =>
        /\ error = NoError
        /\ \A s \in Range(servers) : exitAfterInit[s] >= 1

\* C5: at the start of each retry and after the final failed attempt, the
\* failed attempt has been closed and the server holds no open transport or
\* protocol session.
C5_ClosedBeforeRetry ==
    (\/ pc = "enter" /\ rpc = "sleep"
     \/ pc = "enter" /\ rpc = "try" /\ attempt > 0
     \/ pc = "failed") =>
        LET s == servers[cur] IN
            /\ exitCalls[s] = initFails[s]
            /\ session_context[s] # "open"
            /\ transport_context[s] # "open"

\* C6: a failed bring-up raises an error naming the failing server, only after
\* that server has failed `retries` times, and no server later in the
\* configured order has been initialized.
C6_FailFast ==
    /\ pc = "failed" =>
          /\ error.kind = "init"
          /\ error.server = servers[cur]
          /\ initFails[error.server] = retries
    /\ pc \in {"enter", "failed"} =>
          \A k \in 1..Len(servers) : k > cur => initCalls[servers[k]] = 0

\* C6 witness: the second of the servers exhausts a budget of two attempts
\* while the third has not been touched.
C6_Witness ==
    /\ pc = "failed" /\ retries = 2 /\ cur = 2
    /\ error = [kind |-> "init", server |-> 2]
    /\ initFails[2] = 2 /\ initCalls[3] = 0

\* The positions in the pool of the servers whose catalog has the tool.
Owners(tool_name) == {k \in 1..Len(servers) : tool_name \in catalog[servers[k]]}

\* C7: execute_tool invokes exactly one server, the first in pool order whose
\* catalog contains the tool, also when several servers advertise it.
C7_FirstOwnerOnly ==
    lastCall.kind # "none" /\ Owners(lastCall.call.tool_name) # {} =>
        lastCall.call.invoked = <<servers[Min(Owners(lastCall.call.tool_name))]>>

\* C7 witness: the tool is advertised by the second and the third server and
\* the call went to the second.
C7_Witness ==
    /\ lastCall.kind = "returned"
    /\ Owners(lastCall.call.tool_name) = {2, 3}
    /\ lastCall.call.invoked = <<2>>

\* C8: when no catalog contains the tool, execute_tool returns the error
\* envelope carrying the tool_use_id it was given and invokes no server.
C8_NotFoundEnvelope ==
    lastCall.kind # "none" /\ Owners(lastCall.call.tool_name) = {} =>
        /\ lastCall.kind = "returned"
        /\ lastCall.call.invoked = <<>>
        /\ DOMAIN lastCall.value = {"toolResult"}
        /\ lastCall.value.toolResult.toolUseId = lastCall.call.tool_use_id
        /\ lastCall.value.toolResult.status = "error"
        /\ Len(lastCall.value.toolResult.content) = 1
        /\ DOMAIN lastCall.value.toolResult.content[1] = {"text"}

\* C8 witness: a call with the second tool_use_id for a tool nobody advertises.
C8_Witness ==
    /\ lastCall.kind = "returned"
    /\ Owners(lastCall.call.tool_name) = {}
    /\ lastCall.call.tool_use_id = 2
    /\ lastCall.call.tool_name = 1
    /\ lastCall.value.toolResult.status = "error"

\* C9: whatever exception the owning server's execute_tool raises,
\* execute_tool returns an envelope with status "error" and never raises.
C9_ToolFailureRecovered ==
    lastCall.kind # "none" /\ lastCall.call.outcome \in {"ValueError", "RuntimeError"} =>
        /\ lastCall.kind = "returned"
        /\ lastCall.value.toolResult.status = "error"

\* C10: a stored token obtained at time t with expires_in = e > 0 is not
\* reused by an invocation of the flow at a time >= t + e.
C10_ExpiryFixedAtStorage ==
    /\ flow.result = "reused"
    /\ storage_token.expires_in # {}
    /\ Value(storage_token.expires_in) > 0
    => now < issued_at + Value(storage_token.expires_in)

\* The stored token the current invocation found has an access_token and an
\* expires_in, and TrueExpiry is the instant it was issued plus that lifetime.
FoundToken ==
    /\ flow.result # "none"
    /\ flow.stored_before.present
    /\ flow.stored_before.access_token # ""
    /\ flow.stored_before.expires_in # {}

TrueExpiry == flow.issued_before + Value(flow.stored_before.expires_in)

\* C11: when the store holds a token with an access_token whose expiry is in
\* the future, the flow is authenticated at once with no discovery GET and no
\* token POST, and the stored token is unchanged.
C11_CacheReuse ==
    FoundToken /\ TrueExpiry > now =>
        /\ flow.result = "reused"
        /\ flow.gets = 0 /\ flow.posts = 0
        /\ storage_token = flow.stored_before

\* C11 witness: a token with a lifetime of two is found one instant after issue.
C11_Witness ==
    /\ FoundToken
    /\ flow.stored_before.expires_in = {2}
    /\ now = flow.issued_before + 1
    /\ flow.result = "reused"

\* C12: a stored token with a positive lifetime whose expiry instant equals
\* the current time, or is earlier, is not reused; the flow goes on to
\* metadata discovery.
C12_ExpiryBoundaryExclusive ==
    /\ FoundToken
    /\ Value(flow.stored_before.expires_in) > 0
    /\ TrueExpiry <= now
    => flow.result # "reused"

\* C13: a token response with a status other than 200 ends the flow in a
\* failure carrying that status and body, and the stored token and the
\* provider's current token are what they were before the call.
C13_TokenRequestFailure ==
    flow.posts = 1 /\ flow.response.status # 200 =>
        /\ flow.result = "failed_token"
        /\ flow.error.kind # "none"
        /\ flow.error.status = flow.response.status
        /\ flow.error.body = flow.response.body
        /\ storage_token = flow.stored_before
        /\ current_tokens = flow.current_before

\* C13 witness: the token endpoint answered 201 with a body.
C13_Witness ==
    /\ flow.result = "failed_token"
    /\ flow.response = [status |-> 201, body |-> "server_error"]

\* C14: whenever the flow returns normally, the store holds a token with a
\* non-empty access_token.
C14_StoredTokenUsable ==
    flow.result \in {"reused", "fetched"} =>
        storage_token.present /\ storage_token.access_token # ""

\* C15: every request async_auth_flow yields carries the Authorization header
\* "<token_type> <access_token>" of the provider's current token, and a
\* flow that failed yields no request.
C15_RequestsAuthorized ==
    /\ flow.request.sent =>
          /\ flow.result \in {"reused", "fetched"}
          /\ current_tokens.present
          /\ flow.request.authorization =
                <<IF current_tokens.token_type = "" THEN "Bearer"
                  ELSE current_tokens.token_type,
                  " ", current_tokens.access_token>>
          /\ current_tokens.access_token # ""
    /\ flow.result \in {"failed_discovery", "failed_no_endpoint", "failed_token"}
          => ~flow.request.sent

\* C16: discovery requests the candidates in list order up to and including
\* the first that answers 200 with metadata that parses, accepts that one,
\* and the flow fails when there is none or when the accepted metadata has
\* no token endpoint.
C16_DiscoveryOrder ==
    flow.resps # <<>> =>
        LET parsed == {k \in 1..Len(flow.resps) :
                          flow.resps[k] \in {"ok", "ok_no_endpoint"}}
            first == IF parsed = {} THEN 0 ELSE Min(parsed)
            last == IF parsed = {} THEN Len(flow.resps) ELSE first
        IN /\ flow.requested = [i \in 1..last |-> i]
           /\ flow.accepted = first
           /\ flow.gets = last
           /\ flow.result = IF first = 0 THEN "failed_discovery"
                            ELSE IF flow.resps[first] = "ok_no_endpoint"
                            THEN "failed_no_endpoint"
                            ELSE "discovered"

\* C16 witness: the first candidate raised and the second was accepted.
C16_Witness ==
    /\ flow.result = "discovered"
    /\ flow.resps = <<"raise", "ok">>
    /\ flow.requested = <<1, 2>>

\* The header of the probe response carries a resource_metadata parameter:
\* the key is followed by an item that is not a separator.
CarriesResourceMetadata(header) ==
    /\ header # {}
    /\ \E i \in 1..Len(Value(header)) :
          /\ Value(header)[i] = "resource_metadata="
          /\ i < Len(Value(header))
          /\ Value(header)[i + 1] # ","

\* text is the value of the resource_metadata parameter at position i of h,
\* quoted or unquoted.
IsParameterValue(h, i, text) ==
    /\ h[i] = "resource_metadata="
    /\ text # <<>>
    /\ \/ /\ i + 1 + Len(text) < Len(h)
          /\ h[i + 1] = "\""
          /\ text = SubSeq(h, i + 2, i + 1 + Len(text))
          /\ h[i + 2 + Len(text)] = "\""
          /\ \A k \in 1..Len(text) : text[k] # "\""
       \/ /\ i + Len(text) <= Len(h)
          /\ text = SubSeq(h, i + 1, i + Len(text))
          /\ \A k \in 1..Len(text) : text[k] # ","
          /\ i + Len(text) = Len(h) \/ h[i + Len(text) + 1] = ","

\* C17: discovery fails when the probe status is not 401, when the metadata
\* fetch status is not 200 or when no authorization server is listed;
\* otherwise it returns the first authorization server and the space-joined
\* scopes_supported, or the empty scope when scopes_supported is absent.
C17_ResourceDiscoveryOutcome ==
    dpc = "done" =>
        IF response.status_code # 401 THEN discovered.kind = "raised"
        ELSE IF metadata_response.status_code # 200 THEN discovered.kind = "raised"
        ELSE IF metadata_response.authorization_servers = <<>>
        THEN discovered.kind = "raised"
        ELSE /\ discovered.kind = "returned"
             /\ discovered.authorization_server =
                   metadata_response.authorization_servers[1]
             /\ discovered.scope =
                   IF metadata_response.scopes_supported = {} THEN <<>>
                   ELSE join(Value(metadata_response.scopes_supported))

\* C18: after a 401 probe, a header that is absent or has no
\* resource_metadata parameter makes the automated resolver fetch
\* {scheme}://{host}/.well-known/oauth-protected-resource, and discovery
\* succeeds when that answers valid metadata; a header with the parameter,
\* quoted or unquoted, makes it fetch the parameter's value.
C18_WellKnownFallback ==
    variant \in {"e2e", "server_clients"} /\ response.status_code = 401 =>
        IF CarriesResourceMetadata(response.www_auth_header)
        THEN /\ resource_metadata_url.from = "header"
             /\ \E i \in 1..Len(Value(response.www_auth_header)) :
                   IsParameterValue(Value(response.www_auth_header), i,
                                    resource_metadata_url.text)
        ELSE /\ dpc \in {"fetching", "done"}
             /\ resource_metadata_url.from = "well_known"
             /\ resource_metadata_url.text =
                   <<server_url.scheme, "://", server_url.netloc,
                     "/.well-known/oauth-protected-resource">>
             /\ (dpc = "done" /\ metadata_response.status_code = 200
                 /\ metadata_response.valid
                 /\ metadata_response.authorization_servers # <<>>
                 => discovered.kind = "returned")

Stopped(l) == l.server = "shutdown" /\ l.socket = "closed" /\ l.thread = "joined"

\* C19: whenever callback_handler has returned or raised (code received,
\* provider error or timeout), the listener of that invocation has been shut
\* down, its socket closed and its thread joined.
C19_ListenerStoppedAfterWait ==
    handler.kind # "none" => Stopped(listeners[iattempt])

\* C19 witness: the wait timed out and the listener is stopped.
C19_Witness ==
    /\ handler.kind = "raised"
    /\ handler.error = "Timeout"
    /\ Stopped(listeners[iattempt])

\* C20: once initialize has ended, with success or with a failure, and after
\* close, no listener started by this or an earlier invocation is still
\* listening.
C20_ListenerScopedToInvocation ==
    ipc \in {"ready", "failed", "closed"} =>
        \A a \in Attempts : listeners[a].server # "serving"

\* C21: on the callback path a request with an error parameter is answered
\* 400 and its error recorded, also when it carries a code; otherwise a
\* request with a code is answered 200 and its code and state recorded;
\* otherwise the answer is 400 and nothing is recorded.
C21_CallbackRequestHandling ==
    get_request.listener # 0 /\ ~InFlight(get_request)
    /\ get_request.path = "/callback" =>
        IF get_request.err # "None"
        THEN /\ get_request.status = 400
             /\ get_request.branch = "error"
             /\ get_request.listener = iattempt =>
                   callback_data.error = get_request.err
        ELSE IF get_request.code # "None"
        THEN /\ get_request.status = 200
             /\ get_request.branch = "code"
             /\ get_request.listener = iattempt =>
                   /\ callback_data.authorization_code = get_request.code
                   /\ callback_data.state = get_request.state
        ELSE /\ get_request.status = 400
             /\ get_request.branch = "missing"

\* C22: when the listener has recorded an error, the wait ends by raising
\* that error and not by returning a code, whatever other requests arrived
\* before or after.
C22_RecordedErrorWins ==
    handler.kind # "none" /\ callback_data.error # "None" =>
        /\ handler.kind = "raised"
        /\ handler.error = callback_data.error

\* The wait of this invocation ended without any request having arrived.
EndedWithoutRequest == handler.kind # "none" /\ get_request = NoGet

C23_TimeoutRaised ==
    EndedWithoutRequest =>
        /\ handler.kind = "raised"
        /\ handler.error = "Timeout"
        /\ waited = MaxPolls
        /\ Stopped(listeners[iattempt])
        /\ ~PortBound(listeners)

\* C23: with no incoming request the wait ends, once its time has elapsed,
\* by raising the timeout error, never by returning, and the listener is
\* then stopped and the port free; the wait never goes on forever.
C23_WaitTerminates ==
    /\ []C23_TimeoutRaised
    /\ (ipc \in {"waiting", "sleeping"}) ~> (handler.kind # "none")

\* C23 witness: the wait of an invocation that saw no request has timed out.
C23_Witness ==
    /\ EndedWithoutRequest
    /\ handler.error = "Timeout"
    /\ listeners[iattempt].socket = "closed"

\* C24: a GET /callback?code=c&state=s that reaches the listener while the
\* flow is in wait_for_callback and before the timeout is answered 200, and
\* callback_handler returns c together with the s of that request.
C24_RedirectAcceptedWhileWaiting ==
    /\ handler.kind # "none"
    /\ get_request.in_wait
    /\ get_request.path = "/callback"
    /\ get_request.code # "None" /\ get_request.err = "None"
    => /\ get_request.status = 200
       /\ handler.kind = "returned"
       /\ handler.auth_code = get_request.code
       /\ handler.state = get_request.state

\* C26: starting the listener of a session never fails because the listener
\* of another invocation is still bound to the callback port, and no
\* listener of an earlier invocation receives a request.
C26_NoPortInterference ==
    /\ ierror # "address_in_use"
    /\ get_request.listener # 0 => get_request.listener = iattempt

\* C29: _open_browser does not raise; after a failure to open the browser
\* the flow is in the callback wait, or that wait has ended.
C29_BrowserFailureNotFatal ==
    browser # "none" =>
        /\ ierror # "browser"
        /\ ipc \in {"waiting", "sleeping"} \/ handler.kind # "none"

\* C29 witness: the browser did not open, a redirect carrying a code arrived
\* all the same and the session is ready.
C29_Witness ==
    /\ browser = "failed"
    /\ handler.kind = "returned"
    /\ handler.auth_code = "c1"
    /\ ipc = "ready"

\* C27: within one invocation every discovery candidate is requested at most
\* once and the token endpoint is posted to at most once; a discovery
\* failure ends the invocation before any token request and a token failure
\* ends it with nothing stored.
C27_NoRetryInsideFlow ==
    /\ flow.posts <= 1
    /\ \A i, j \in 1..Len(flow.requested) :
          i # j => flow.requested[i] # flow.requested[j]
    /\ flow.gets = Len(flow.requested) \/ flow.requested = <<>>
    /\ flow.gets <= NumCandidates
    /\ flow.result \in {"failed_discovery", "failed_no_endpoint"} =>
          /\ flow.posts = 0
          /\ storage_token = flow.stored_before
    /\ flow.result = "failed_token" =>
          /\ flow.posts = 1
          /\ flow.error.kind = "RuntimeError"
          /\ storage_token = flow.stored_before

\* C27 witness: both candidates failed, each asked once, and no token request
\* was made.
C27_Witness ==
    /\ flow.result = "failed_discovery"
    /\ flow.requested = <<1, 2>>
    /\ flow.posts = 0

\* C25: every close of a session releases the protocol session before the
\* transport, and every close after the first makes no further release and
\* lets no exception of a release out.
C25_CloseLifoIdempotent ==
    \A k \in 1..Len(closes) :
        /\ \A i, j \in 1..Len(closes[k].released) :
              closes[k].released[i].what = "transport"
              /\ closes[k].released[j].what = "session" => j < i
        /\ ~closes[k].escaped
        /\ k >= 2 => closes[k].released = <<>>

\* C28: when a cancellation has left the bring-up, no session holds an open
\* transport or protocol session.
C28_ReleasedBeforeCancellation ==
    pc = "cancelled" =>
        \A s \in ServerIds :
            /\ transport_context[s] # "open"
            /\ session_context[s] # "open"

\* The number of tools in the catalogs of the first k servers of the pool.
RECURSIVE Offset(_)
Offset(k) == IF k = 0 THEN 0 ELSE Offset(k - 1) + Cardinality(catalog[servers[k]])

\* C30: list_tools returns the catalogs of the sessions one after the other
\* in pool order, with a name advertised by several servers appearing once
\* for each of them.
C30_ListToolsConcatenation ==
    tools.listed =>
        /\ Len(tools.value) = Offset(Len(servers))
        /\ \A k \in 1..Len(servers) :
              {tools.value[i] : i \in (Offset(k - 1) + 1)..Offset(k)}
                  = catalog[servers[k]]

\* C30 witness: the first server has both tools, the second has the first
\* tool again, and the list names that tool twice.
C30_Witness ==
    /\ tools.listed
    /\ catalog[1] = {1, 2} /\ catalog[2] = {1}
    /\ SubSeq(tools.value, 1, 3) = <<1, 2, 1>>

\* C35: execute_tool returns the "No server found with tool" envelope only
\* when no server of the pool advertises the tool; when an owner exists, what
\* it returns wraps the owner's own result.
C35_NotFoundOnlyWhenUnowned ==
    lastCall.kind = "returned" =>
        /\ lastCall.value.toolResult.content[1].text[1] = "No server found with tool: "
              => Owners(lastCall.call.tool_name) = {}
        /\ Owners(lastCall.call.tool_name) # {} =>
              lastCall.value =
                  [toolResult |-> ServerResult(lastCall.call.tool_use_id,
                                               lastCall.call.outcome)]

\* C36: after a session's __aexit__ has returned, neither its protocol
\* session nor its transport is still open, also when closing the protocol
\* session raised, and also after a repeated close.
C36_ReleasedAfterClose ==
    Len(closes) > 0 /\ ~closes[Len(closes)].raised =>
        /\ session_context[1] # "open"
        /\ transport_context[1] # "open"

\* C37: for every retry budget, zero included, what the retry loop hands to
\* the bring-up is a server whose initialize succeeded, so a pool that is up
\* holds the configured servers, each initialized, in configured order.
C37_OnlyInitializedServers ==
    /\ pc \in {"enter", "up"} =>
          \A k \in 1..Len(initialized_servers) :
              /\ initialized_servers[k] = ConfiguredServers[k]
              /\ initCalls[initialized_servers[k]] > initFails[initialized_servers[k]]
    /\ pc = "up" => servers = ConfiguredServers

\* C40: an initialize that obtained no client id does not fail after scope
\* discovery for want of the client info, and so leaves no listener
\* listening through such a failure.
C40_ClientInfoOptional ==
    client_id = "None" /\ ipc = "failed" => ierror # "UnboundLocalError"

\* The re-invocations made so far that returned an error result or raised.
FailedOutcomes ==
    {k \in 1..Len(hook.outcomes) :
        \/ hook.outcomes[k].kind = "raised"
        \/ hook.outcomes[k].result.isError = "true"}

C34_ResultReplacedOnlyBySuccess ==
    hook.pc # "idle" =>
        /\ hook.original.isError # "true" =>
              /\ hook.pc = "done"
              /\ hook.outcomes = <<>> /\ hook.sleeps = 0
              /\ hook.result = hook.original
              /\ hook.raised.type = "none"
        /\ \A k \in 1..Len(hook.outcomes) :
              k \notin FailedOutcomes =>
                  /\ k = Len(hook.outcomes)
                  /\ hook.pc = "done"
                  /\ hook.result = hook.outcomes[k].result
                  /\ hook.raised.type = "none"
        /\ hook.result # hook.original =>
              /\ hook.result.isError # "true"
              /\ Len(hook.outcomes) > 0
              /\ hook.result = hook.outcomes[Len(hook.outcomes)].result
        /\ hook.result.isError = "true" => hook.result = hook.original

\* C34 witness: the second re-invocation returned a non-error result, which
\* replaced the error result of the event.
C34_Witness ==
    /\ hook.pc = "done"
    /\ Len(hook.outcomes) = 2
    /\ hook.original.isError = "true"
    /\ hook.result.isError = "absent"

\* The positions of expected_tools whose tool has a non-error event in the
\* trajectory of the evaluated case.
CalledSuccessfully ==
    {k \in DOMAIN evaluation.expected_tools :
        \E j \in DOMAIN evaluation.actual_trajectory :
            /\ evaluation.actual_trajectory[j].name = evaluation.expected_tools[k]
            /\ ~evaluation.actual_trajectory[j].is_error}

\* C38: test_pass is true exactly when the trajectory is non-empty and every
\* expected tool has a non-error event in it, whatever error events the same
\* tool has; the score is the fraction of the expected tools called
\* successfully, 1.0 when none is expected; an empty trajectory gives score
\* 0.0 and test_pass false.
C38_EvaluatorVerdict ==
    evaluation.evaluated =>
        /\ evaluation.output.test_pass <=>
              /\ evaluation.actual_trajectory # <<>>
              /\ CalledSuccessfully = DOMAIN evaluation.expected_tools
        /\ IF evaluation.actual_trajectory = <<>>
           THEN /\ evaluation.output.score.num = 0
                /\ ~evaluation.output.test_pass
           ELSE IF evaluation.expected_tools = <<>>
           THEN evaluation.output.score.num = evaluation.output.score.den
           ELSE evaluation.output.score.num * Len(evaluation.expected_tools)
                    = Cardinality(CalledSuccessfully) * evaluation.output.score.den
        /\ evaluation.output.score.den > 0

\* C38 witness: the expected tool failed first and succeeded afterwards, and
\* the case passes with the full score.
C38_Witness ==
    /\ evaluation.evaluated
    /\ evaluation.expected_tools = <<1>>
    /\ evaluation.actual_trajectory =
          <<[name |-> 1, is_error |-> TRUE], [name |-> 1, is_error |-> FALSE]>>
    /\ evaluation.output.test_pass
    /\ evaluation.output.score = [num |-> 1, den |-> 1]

\* The URL sources the configuration of the last construction names with a
\* non-empty value, each by its first spelling.
ConfiguredSources ==
    {p[1] : p \in {q \in created.pairs :
        \E k \in {q[1], q[2]} : created.config[k] \notin {"absent", "None", ""}}}

\* Where the URL comes from when this source is the configured one.
SourceOrigin(source) ==
    IF source \in {"serverStackName", "stackName", "stack_name"} THEN "cloudformation"
    ELSE IF source = "serverSsmParameterName" THEN "ssm"
    ELSE "config"

====
